---- MODULE Spec2Model ----
(***************************************************************************)
(* Verification model of chttp: the tag-scoped allocation registry         *)
(* (alloc.c), the router (router.c), the layer pipeline (layers.c), the     *)
(* request parser and the response serializer (http.c) and the connection  *)
(* coordinator (handle_client_request).                                    *)
(***************************************************************************)
EXTENDS Integers, Sequences, FiniteSets, TLC

(* ------------------------------------------------------------------ *)
(* Bounds of the model                                                *)
(* ------------------------------------------------------------------ *)
NumAddrs == 2
NumTags == 1
MaxSize == 2

(* ------------------------------------------------------------------ *)
(* Program constants                                                  *)
(* ------------------------------------------------------------------ *)
ALLOC_TABLE_INITIAL_SIZE == 256
TAG_TABLE_INITIAL_SIZE == 32
PTR_LIST_INITIAL_SIZE == 8
NULL == 0

(* Addresses the underlying malloc may hand out.  Consecutive pairs     *)
(* differ by 8 * ALLOC_TABLE_INITIAL_SIZE, so they share a hash bucket. *)
AddrOf(i) ==
    IF i % 2 = 1 THEN 16 * i ELSE 16 * (i - 1) + 8 * ALLOC_TABLE_INITIAL_SIZE
Addrs == {AddrOf(i) : i \in 1..NumAddrs}

(* Tag values: NULL, and small handles as TAG(client_fd) produces; some *)
(* share a bucket of the tag table, some do not.                        *)
TagOf(i) == IF i % 2 = 1 THEN 4 * i ELSE 4 * i + 1
Tags == {NULL} \cup {TagOf(i) : i \in 1..NumTags}
\* block sizes requested: the smallest and the largest
Sizes == {1, MaxSize}

hash_pointer(ptr, table_size) == (ptr \div 8) % table_size

\* the allocations of one request cycle, all under the connection's tag; a
\* String (struct and data, allocated and released together) is one object
O_REQ == 1            \* the HttpRequest
O_REQ_HEADERS == 2    \* its HeaderArray struct
O_TARGET0 == 3        \* the empty target string of http_request_new
O_BODY0 == 4          \* the empty body string of http_request_new
O_RAW == 5            \* request_string
O_TMP == 6            \* the parser's line and token strings that it never frees
O_TARGET == 7         \* the target string the request line branch assigns
O_HDATA == 8          \* the data array of the request's HeaderArray
O_HDR_KV == 9         \* the key and value strings of the parsed headers
O_BODY == 10          \* the body string the parser assigns
O_RESP == 11          \* the HttpResponse
O_RESP_HEADERS == 12  \* its HeaderArray struct
O_RESP_BODY == 13     \* its body string
Objects == {O_REQ, O_REQ_HEADERS, O_TARGET0, O_BODY0, O_RAW, O_TMP, O_TARGET,
            O_HDATA, O_HDR_KV, O_BODY, O_RESP, O_RESP_HEADERS, O_RESP_BODY}
\* the addresses malloc hands out for them
ObjAddrs == {AddrOf(o) : o \in Objects}

\* the buckets of the tables that the addresses and tags above fall into
AllocBuckets ==
    {hash_pointer(a, ALLOC_TABLE_INITIAL_SIZE) : a \in Addrs \cup ObjAddrs}
TagBuckets == {hash_pointer(t, TAG_TABLE_INITIAL_SIZE) : t \in Tags}

NoInfo == [ptr |-> NULL, size |-> 0, tag |-> NULL]
NoEntry == [tag |-> NULL, ptrs |-> <<>>, capacity |-> 0]

(* ------------------------------------------------------------------ *)
(* Sequence helpers                                                   *)
(* ------------------------------------------------------------------ *)
RemoveAt(s, i) == SubSeq(s, 1, i - 1) \o SubSeq(s, i + 1, Len(s))
FirstIndex(s, P(_)) ==
    IF \E i \in 1..Len(s) : P(s[i])
    THEN CHOOSE i \in 1..Len(s) : P(s[i]) /\ \A j \in 1..(i - 1) : ~P(s[j])
    ELSE 0
Range(s) == {s[i] : i \in 1..Len(s)}

RECURSIVE SumFrom(_, _)
SumFrom(s, i) == IF i > Len(s) THEN 0 ELSE s[i] + SumFrom(s, i + 1)
SumSeq(s) == SumFrom(s, 1)

(* ------------------------------------------------------------------ *)
(* Registry state as a value: the two hash tables, their counters and  *)
(* the set of blocks the underlying allocator currently has handed out *)
(* ------------------------------------------------------------------ *)
EmptyRegistry ==
    [tab   |-> [b \in AllocBuckets |-> <<>>],
     tags  |-> [b \in TagBuckets |-> <<>>],
     count |-> 0,
     tcount |-> 0,
     heap  |-> {},
     dfree |-> FALSE]

\* free(ptr) of the C library; freeing a block that is not handed out is
\* a double free
Free(r, ptr) ==
    [r EXCEPT !.heap = @ \ {ptr}, !.dfree = @ \/ ptr \notin r.heap]

\* find_alloc_info: first record of the chain whose ptr matches
find_alloc_info(r, ptr) ==
    IF ptr = NULL \/ ptr \notin Addrs \cup ObjAddrs THEN NoInfo
    ELSE LET chain == r.tab[hash_pointer(ptr, ALLOC_TABLE_INITIAL_SIZE)]
             i == FirstIndex(chain, LAMBDA e : e.ptr = ptr)
         IN IF i = 0 THEN NoInfo ELSE chain[i]

HasInfo(r, ptr) == find_alloc_info(r, ptr) # NoInfo

\* find_tag_entry: index of the first entry of the chain with this tag (0: none)
find_tag_entry(r, tag) ==
    FirstIndex(r.tags[hash_pointer(tag, TAG_TABLE_INITIAL_SIZE)],
               LAMBDA e : e.tag = tag)

TagEntry(r, tag) ==
    LET i == find_tag_entry(r, tag)
    IN IF i = 0 THEN NoEntry
       ELSE r.tags[hash_pointer(tag, TAG_TABLE_INITIAL_SIZE)][i]

\* add_ptr_to_tag: grow the member array when full (growOk: realloc result)
add_ptr_to_tag(r, tag, ptr, growOk) ==
    LET b == hash_pointer(tag, TAG_TABLE_INITIAL_SIZE)
        i == find_tag_entry(r, tag)
        e == r.tags[b][i]
        full == Len(e.ptrs) >= e.capacity
        newcap == IF e.capacity * 2 = 0 THEN PTR_LIST_INITIAL_SIZE
                  ELSE e.capacity * 2
    IN IF full /\ ~growOk THEN r
       ELSE [r EXCEPT !.tags[b][i] =
                [e EXCEPT !.ptrs = Append(e.ptrs, ptr),
                          !.capacity = IF full THEN newcap ELSE e.capacity]]

\* remove_ptr_from_tag: the last member takes the place of the removed one
remove_ptr_from_tag(r, tag, ptr) ==
    LET b == hash_pointer(tag, TAG_TABLE_INITIAL_SIZE)
        i == find_tag_entry(r, tag)
        e == r.tags[b][i]
        k == FirstIndex(e.ptrs, LAMBDA p : p = ptr)
        n == Len(e.ptrs)
        moved == IF k < n THEN [e.ptrs EXCEPT ![k] = e.ptrs[n]] ELSE e.ptrs
    IN IF i = 0 \/ k = 0 THEN r
       ELSE [r EXCEPT !.tags[b][i].ptrs = SubSeq(moved, 1, n - 1)]

\* create_tag_entry: a new entry at the head of the tag's chain
create_tag_entry(r, tag, entryOk) ==
    LET b == hash_pointer(tag, TAG_TABLE_INITIAL_SIZE)
        e == [tag |-> tag, ptrs |-> <<>>, capacity |-> PTR_LIST_INITIAL_SIZE]
    IN IF ~entryOk THEN r
       ELSE [r EXCEPT !.tags[b] = <<e>> \o @, !.tcount = @ + 1]

\* register_allocation: record at the head of the chain, then group membership
register_allocation(r, ptr, size, tag, infoOk, entryOk, growOk) ==
    LET h == hash_pointer(ptr, ALLOC_TABLE_INITIAL_SIZE)
        info == [ptr |-> ptr, size |-> size, tag |-> tag]
        r1 == [r EXCEPT !.tab[h] = <<info>> \o @, !.count = @ + 1]
        r2 == IF find_tag_entry(r1, tag) = 0
              THEN create_tag_entry(r1, tag, entryOk) ELSE r1
    IN IF ~infoOk THEN r
       ELSE IF find_tag_entry(r2, tag) = 0 THEN r2
       ELSE add_ptr_to_tag(r2, tag, ptr, growOk)

\* variant of unregister_allocation that leaves the address in its group
unregister_allocation_keeps_member(r, ptr) ==
    LET h == hash_pointer(ptr, ALLOC_TABLE_INITIAL_SIZE)
        i == FirstIndex(r.tab[h], LAMBDA e : e.ptr = ptr)
    IN IF ptr = NULL \/ ptr \notin Addrs \cup ObjAddrs \/ i = 0 THEN r
       ELSE [r EXCEPT !.tab[h] = RemoveAt(@, i), !.count = @ - 1]

\* unregister_allocation: unlink the first record for ptr and drop it from
\* the group of the tag that record names
unregister_allocation(r, ptr) ==
    LET h == hash_pointer(ptr, ALLOC_TABLE_INITIAL_SIZE)
        i == FirstIndex(r.tab[h], LAMBDA e : e.ptr = ptr)
        info == r.tab[h][i]
        r1 == [r EXCEPT !.tab[h] = RemoveAt(@, i), !.count = @ - 1]
    IN IF ptr = NULL \/ ptr \notin Addrs \cup ObjAddrs \/ i = 0 THEN r
       ELSE remove_ptr_from_tag(r1, info.tag, ptr)

\* ptag_size: sum over the group's members of the size in their records
ptag_size(r, tag) ==
    LET e == TagEntry(r, tag)
    IN IF tag = NULL \/ find_tag_entry(r, tag) = 0 THEN 0
       ELSE SumSeq([k \in 1..Len(e.ptrs) |-> find_alloc_info(r, e.ptrs[k]).size])


(* ------------------------------------------------------------------ *)
(* Public API of the registry as functions of the registry value.      *)
(* Each yields [r |-> registry after, ret |-> returned pointer,        *)
(* fatal |-> whether the assert(0) path was taken].                    *)
(* f is the outcome of the internal bookkeeping allocations.           *)
(* ------------------------------------------------------------------ *)
AllOk == [info |-> TRUE, entry |-> TRUE, grow |-> TRUE, tmp |-> TRUE]

\* pmalloc: addr is what malloc returned (NULL: failure)
pmalloc(r, size, tag, addr, f) ==
    IF addr = NULL THEN [r |-> r, ret |-> NULL, fatal |-> FALSE]
    ELSE [r |-> register_allocation([r EXCEPT !.heap = @ \cup {addr}],
                                    addr, size, tag, f.info, f.entry, f.grow),
          ret |-> addr, fatal |-> FALSE]

\* pcalloc: registers n * size bytes
pcalloc(r, n, size, tag, addr, f) ==
    IF addr = NULL THEN [r |-> r, ret |-> NULL, fatal |-> FALSE]
    ELSE [r |-> register_allocation([r EXCEPT !.heap = @ \cup {addr}],
                                    addr, n * size, tag, f.info, f.entry, f.grow),
          ret |-> addr, fatal |-> FALSE]

\* variant of the relocating branch that forgets the old group membership
prealloc_moved_keeps_member(r, ptr, size, tag, new_ptr, f) ==
    LET h == hash_pointer(ptr, ALLOC_TABLE_INITIAL_SIZE)
        i == FirstIndex(r.tab[h], LAMBDA e : e.ptr = ptr)
        r0 == Free(r, ptr)
        r1 == [r0 EXCEPT !.heap = @ \cup {new_ptr},
                         !.tab[h] = RemoveAt(@, i),
                         !.count = @ - 1]
    IN register_allocation(r1, new_ptr, size, tag, f.info, f.entry, f.grow)

\* the relocating branch of prealloc: unlink the old record by hand, drop
\* the old address from the old tag's group, register the new address
prealloc_moved(r, ptr, size, tag, new_ptr, f) ==
    LET old_tag == find_alloc_info(r, ptr).tag
        h == hash_pointer(ptr, ALLOC_TABLE_INITIAL_SIZE)
        i == FirstIndex(r.tab[h], LAMBDA e : e.ptr = ptr)
        r0 == Free(r, ptr)
        r1 == [r0 EXCEPT !.heap = @ \cup {new_ptr},
                         !.tab[h] = RemoveAt(@, i),
                         !.count = @ - 1]
        r2 == remove_ptr_from_tag(r1, old_tag, ptr)
    IN register_allocation(r2, new_ptr, size, tag, f.info, f.entry, f.grow)

\* variant of the in-place branch that only rewrites the record
prealloc_inplace_record_only(r, ptr, size, tag, f) ==
    LET h == hash_pointer(ptr, ALLOC_TABLE_INITIAL_SIZE)
        i == FirstIndex(r.tab[h], LAMBDA e : e.ptr = ptr)
    IN [r EXCEPT !.tab[h][i].size = size, !.tab[h][i].tag = tag]

\* the in-place branch of prealloc: move between groups when the tag
\* changes, then update size and tag of the record
prealloc_inplace(r, ptr, size, tag, f) ==
    LET old_tag == find_alloc_info(r, ptr).tag
        h == hash_pointer(ptr, ALLOC_TABLE_INITIAL_SIZE)
        i == FirstIndex(r.tab[h], LAMBDA e : e.ptr = ptr)
        hadNew == find_tag_entry(r, tag) # 0
        r1 == remove_ptr_from_tag(r, old_tag, ptr)
        r2 == IF hadNew THEN r1 ELSE create_tag_entry(r1, tag, f.entry)
        r3 == IF find_tag_entry(r2, tag) = 0 THEN r2
              ELSE add_ptr_to_tag(r2, tag, ptr, f.grow)
        r4 == IF tag # old_tag THEN r3 ELSE r
    IN [r4 EXCEPT !.tab[h][i].size = size, !.tab[h][i].tag = tag]

\* variant of prealloc that takes the record out before it calls realloc
prealloc_unregisters_first(r, ptr, size, tag, new_ptr, f) ==
    IF ptr = NULL THEN pmalloc(r, size, tag, new_ptr, f)
    ELSE IF ~HasInfo(r, ptr) THEN [r |-> r, ret |-> NULL, fatal |-> TRUE]
    ELSE IF new_ptr = NULL
    THEN [r |-> unregister_allocation(r, ptr), ret |-> NULL, fatal |-> FALSE]
    ELSE IF new_ptr # ptr
    THEN [r |-> prealloc_moved(r, ptr, size, tag, new_ptr, f),
          ret |-> new_ptr, fatal |-> FALSE]
    ELSE [r |-> prealloc_inplace(r, ptr, size, tag, f),
          ret |-> new_ptr, fatal |-> FALSE]

\* prealloc: new_ptr is what realloc returned (NULL: failure, ptr: in place)
prealloc(r, ptr, size, tag, new_ptr, f) ==
    IF ptr = NULL THEN pmalloc(r, size, tag, new_ptr, f)
    ELSE IF ~HasInfo(r, ptr) THEN [r |-> r, ret |-> NULL, fatal |-> TRUE]
    ELSE IF new_ptr = NULL THEN [r |-> r, ret |-> NULL, fatal |-> FALSE]
    ELSE IF new_ptr # ptr
    THEN [r |-> prealloc_moved(r, ptr, size, tag, new_ptr, f),
          ret |-> new_ptr, fatal |-> FALSE]
    ELSE [r |-> prealloc_inplace(r, ptr, size, tag, f),
          ret |-> new_ptr, fatal |-> FALSE]

\* variant of pfree that returns quietly when the address has no record
pfree_ignores_unknown(r, ptr) ==
    IF ptr = NULL \/ ~HasInfo(r, ptr) THEN [r |-> r, ret |-> NULL, fatal |-> FALSE]
    ELSE [r |-> Free(unregister_allocation(r, ptr), ptr),
          ret |-> NULL, fatal |-> FALSE]

\* pfree: unregister, then free the record and the block
pfree(r, ptr) ==
    IF ptr = NULL THEN [r |-> r, ret |-> NULL, fatal |-> FALSE]
    ELSE IF ~HasInfo(r, ptr) THEN [r |-> r, ret |-> NULL, fatal |-> TRUE]
    ELSE [r |-> Free(unregister_allocation(r, ptr), ptr),
          ret |-> NULL, fatal |-> FALSE]

\* variant of the loop that stops after the first member
pfree_tag_loop_first_only(r, ptrs) ==
    IF ptrs = <<>> THEN r
    ELSE IF HasInfo(r, Head(ptrs))
    THEN Free(unregister_allocation(r, Head(ptrs)), Head(ptrs))
    ELSE r

\* the loop of pfree_tag over the copied member array
RECURSIVE pfree_tag_loop(_, _)
pfree_tag_loop(r, ptrs) ==
    IF ptrs = <<>> THEN r
    ELSE LET p == Head(ptrs)
             r1 == IF HasInfo(r, p)
                   THEN Free(unregister_allocation(r, p), p)
                   ELSE r
         IN pfree_tag_loop(r1, Tail(ptrs))

\* variant of pfree_tag that also releases the members of the NULL group
pfree_tag_sweeps_null_group(r, tag, f) ==
    LET e == TagEntry(r, tag)
    IN IF find_tag_entry(r, tag) = 0 \/ Len(e.ptrs) = 0 \/ ~f.tmp
       THEN [r |-> r, ret |-> NULL, fatal |-> FALSE]
       ELSE [r |-> pfree_tag_loop(r, e.ptrs \o TagEntry(r, NULL).ptrs),
             ret |-> NULL, fatal |-> FALSE]

\* pfree_tag: release every member of the tag's group
pfree_tag(r, tag, f) ==
    LET e == TagEntry(r, tag)
    IN IF find_tag_entry(r, tag) = 0 \/ Len(e.ptrs) = 0 \/ ~f.tmp
       THEN [r |-> r, ret |-> NULL, fatal |-> FALSE]
       ELSE [r |-> pfree_tag_loop(r, e.ptrs), ret |-> NULL, fatal |-> FALSE]

(* ------------------------------------------------------------------ *)
(* Observations on the registry used by the properties                *)
(* ------------------------------------------------------------------ *)
\* every record of the allocation table
Records(r) == UNION {Range(r.tab[b]) : b \in DOMAIN r.tab}
\* number of records held for one address
RecordCount(r, ptr) ==
    LET chain == r.tab[hash_pointer(ptr, ALLOC_TABLE_INITIAL_SIZE)]
    IN Cardinality({i \in 1..Len(chain) : chain[i].ptr = ptr})
\* every tag entry of the tag table
Entries(r) == UNION {Range(r.tags[b]) : b \in DOMAIN r.tags}
\* how many times ptr occurs in the member arrays of the entries of tag
MemberCount(r, tag, ptr) ==
    LET b == hash_pointer(tag, TAG_TABLE_INITIAL_SIZE)
        chain == r.tags[b]
    IN SumSeq([i \in 1..Len(chain) |->
                 IF chain[i].tag = tag
                 THEN Cardinality({k \in 1..Len(chain[i].ptrs) :
                                      chain[i].ptrs[k] = ptr})
                 ELSE 0])
GroupsOf(r, ptr) == {t \in Tags : MemberCount(r, t, ptr) > 0}
MembersOf(r, tag) == {a \in Addrs : MemberCount(r, tag, a) > 0}
TaggedLive(r, tag) == {a \in Addrs : \E e \in Records(r) : e.ptr = a /\ e.tag = tag}


(* ------------------------------------------------------------------ *)
(* Byte strings (cstring.c), as sequences of one-character strings.    *)
(* Only ASCII occurs, so character and byte indices coincide.          *)
(* ------------------------------------------------------------------ *)
\* size_t arithmetic wraps; the width is scaled down, every length stays
\* far below it
SizeMod == 2 ^ 16
SIZE_MAX == SizeMod - 1
Wrap(n) == n % SizeMod

string_length(str) == Len(str)

\* string_equals / string_equals_cstr: same length and same bytes
string_equals(str1, str2) ==
    /\ Len(str1) = Len(str2)
    /\ \A i \in 1..Len(str1) : str1[i] = str2[i]

\* string_begins_with: memcmp over the length of the prefix
string_begins_with(str, prefix) ==
    /\ ~(Len(prefix) > Len(str))
    /\ \A i \in 1..Len(prefix) : str[i] = prefix[i]

\* string_find_cstr: index (from 0) of the first occurrence of substr at or
\* after start_pos, SIZE_MAX when there is none
string_find_cstr(str, substr, start_pos) ==
    IF substr = <<>> THEN 0
    ELSE IF start_pos >= Len(str) THEN SIZE_MAX
    ELSE IF Len(substr) > Len(str) - start_pos THEN SIZE_MAX
    ELSE LET hits == {i \in start_pos..(Len(str) - Len(substr)) :
                         \A j \in 1..Len(substr) : str[i + j] = substr[j]}
         IN IF hits = {} THEN SIZE_MAX
            ELSE CHOOSE i \in hits : \A k \in hits : i <= k

\* string_substring: length characters from start (from 0), capped at the end
string_substring(str, start, length) ==
    IF start >= Len(str) THEN <<>>
    ELSE LET e == Wrap(start + length)
             end == IF e > Len(str) THEN Len(str) ELSE e
         IN SubSeq(str, start + 1, end)

(* ------------------------------------------------------------------ *)
(* Router (router.c)                                                  *)
(* ------------------------------------------------------------------ *)
HTTP_UNKNOWN == 0
HTTP_GET == 1
HTTP_POST == 2
HTTP_PUT == 4
HTTP_DELETE == 8
HTTP_PATCH == 16
HTTP_OPTIONS == 32
HTTP_HEAD == 64
MethodValues == {HTTP_UNKNOWN, HTTP_GET, HTTP_POST, HTTP_PUT, HTTP_DELETE,
                 HTTP_PATCH, HTTP_OPTIONS, HTTP_HEAD}

HTTP_404 == "HTTP/1.1 404 Not Found"
\* response->status as http_response_new leaves it
NoStatus == "NULL"
\* what a route handler leaves in response->status
HandlerStatus == "set by handler"

\* bitwise and of two naturals
RECURSIVE BitAnd(_, _)
BitAnd(a, b) ==
    IF a = 0 \/ b = 0 THEN 0
    ELSE (a % 2) * (b % 2) + 2 * BitAnd(a \div 2, b \div 2)

\* the macro IN_METHODS
IN_METHODS(methods, method) == BitAnd(methods, method) = method

\* the test router_route makes on one route
RouteAccepts(route, method, target) ==
    /\ IN_METHODS(route.methods, method)
    /\ \/ route.exact_only /\ string_equals(route.path, target)
       \/ ~route.exact_only /\ string_begins_with(target, route.path)

\* the loop of router_route from route i on: the handlers it invokes
RECURSIVE router_scan(_, _, _, _)
router_scan(routes, i, method, target) ==
    IF i > Len(routes) THEN <<>>
    ELSE IF RouteAccepts(routes[i], method, target) THEN <<i>>
    ELSE router_scan(routes, i + 1, method, target)

\* router_route: the handlers invoked (by index of their route), the status
\* of the response afterwards, and the return value
router_route(routes, method, target) ==
    LET called == router_scan(routes, 1, method, target)
    IN IF called # <<>>
       THEN [called |-> called, status |-> HandlerStatus, ret |-> TRUE]
       ELSE [called |-> <<>>, status |-> HTTP_404, ret |-> FALSE]

(* ------------------------------------------------------------------ *)
(* Layers (layers.c)                                                  *)
(* ------------------------------------------------------------------ *)
LayerStages == {"INIT", "PRE_ROUTE", "POST_ROUTE", "PRE_RESPONSE",
                "POST_RESPONSE", "CLEANUP"}

\* variant of layers_apply that stops at any failing layer of the stage
RECURSIVE layers_apply_stop_on_any(_, _, _, _)
layers_apply_stop_on_any(layers, i, stage, invoked) ==
    IF i > Len(layers) THEN [ret |-> TRUE, invoked |-> invoked]
    ELSE IF layers[i].when # stage
    THEN layers_apply_stop_on_any(layers, i + 1, stage, invoked)
    ELSE IF ~layers[i].fn
    THEN [ret |-> FALSE, invoked |-> Append(invoked, i)]
    ELSE layers_apply_stop_on_any(layers, i + 1, stage, Append(invoked, i))

\* layers_apply from layer i on; a layer's fn is the value its function
\* returns for this request; invoked lists the layers whose function ran
RECURSIVE layers_apply(_, _, _, _)
layers_apply(layers, i, stage, invoked) ==
    IF i > Len(layers) THEN [ret |-> TRUE, invoked |-> invoked]
    ELSE IF layers[i].when # stage
    THEN layers_apply(layers, i + 1, stage, invoked)
    ELSE IF ~layers[i].fn /\ ~layers[i].can_fail
    THEN [ret |-> FALSE, invoked |-> Append(invoked, i)]
    ELSE layers_apply(layers, i + 1, stage, Append(invoked, i))

\* layers_apply with its test of the arguments: a NULL request or a NULL
\* response returns false before any layer is looked at
layers_apply_call(layers, stage, hasRequest, hasResponse) ==
    IF ~hasRequest \/ ~hasResponse THEN [ret |-> FALSE, invoked |-> <<>>]
    ELSE layers_apply(layers, 1, stage, <<>>)

(* ------------------------------------------------------------------ *)
(* Request parser (http.c)                                            *)
(* ------------------------------------------------------------------ *)
CRLF == <<"\r", "\n">>
SP == <<" ">>
COLON_SP == <<":", " ">>
S_GET == <<"G", "E", "T">>
S_POST == <<"P", "O", "S", "T">>
S_PUT == <<"P", "U", "T">>
S_DELETE == <<"D", "E", "L", "E", "T", "E">>
S_PATCH == <<"P", "A", "T", "C", "H">>
S_OPTIONS == <<"O", "P", "T", "I", "O", "N", "S">>
S_HEAD == <<"H", "E", "A", "D">>
S_HTTP11 == <<"H", "T", "T", "P", "/", "1", ".", "1">>
S_HTTP20 == <<"H", "T", "T", "P", "/", "2", ".", "0">>
S_HTTP10 == <<"H", "T", "T", "P", "/", "1", ".", "0">>

\* the request as http_request_new creates it
NewRequest ==
    [method |-> HTTP_UNKNOWN, target |-> <<>>,
     version |-> "HTTP_UNKNOWN_VERSION", headers |-> <<>>, body |-> <<>>]

\* the chain of string_equals_cstr tests on the method token
MethodOfToken(tok, old) ==
    IF string_equals(tok, S_GET) THEN HTTP_GET
    ELSE IF string_equals(tok, S_POST) THEN HTTP_POST
    ELSE IF string_equals(tok, S_PUT) THEN HTTP_PUT
    ELSE IF string_equals(tok, S_DELETE) THEN HTTP_DELETE
    ELSE IF string_equals(tok, S_PATCH) THEN HTTP_PATCH
    ELSE IF string_equals(tok, S_OPTIONS) THEN HTTP_OPTIONS
    ELSE IF string_equals(tok, S_HEAD) THEN HTTP_HEAD
    ELSE old

\* the branch of the line loop taken while method is HTTP_UNKNOWN
parse_request_line(req, line) ==
    LET sp == string_find_cstr(line, SP, 0)
        method_str == string_substring(line, 0, sp)
        target_start == Wrap(sp + 1)
        target_end == string_find_cstr(line, SP, target_start)
        target == string_substring(line, target_start,
                                   Wrap(target_end - target_start))
        version_start == Wrap(target_end + 1)
        vstr == string_substring(line, version_start,
                                 Wrap(Len(line) - version_start))
    IN [req EXCEPT
          !.method = MethodOfToken(method_str, @),
          !.target = target,
          !.version = IF string_equals(vstr, S_HTTP11) THEN "HTTP_1_1"
                      ELSE IF string_equals(vstr, S_HTTP20) THEN "HTTP_2_0"
                      ELSE @]

\* the branch of the line loop taken once method is known
parse_header_line(req, line) ==
    LET colon_pos == string_find_cstr(line, COLON_SP, 0)
        key == string_substring(line, 0, colon_pos)
        value == string_substring(line, colon_pos + 2,
                                  Wrap(Len(line) - colon_pos - 2))
    IN IF colon_pos # SIZE_MAX
       THEN [req EXCEPT !.headers = Append(@, [key |-> key, value |-> value])]
       ELSE req

\* the while loop of http_request_parse: the request and the value of
\* start when the loop ends
RECURSIVE parse_lines(_, _, _)
parse_lines(req, raw, start) ==
    LET end == string_find_cstr(raw, CRLF, start)
        line == string_substring(raw, start, Wrap(end - start))
    IN IF end = SIZE_MAX THEN [req |-> req, start |-> start]
       ELSE IF string_length(line) = 0 THEN [req |-> req, start |-> end + 2]
       ELSE parse_lines(IF req.method = HTTP_UNKNOWN
                        THEN parse_request_line(req, line)
                        ELSE parse_header_line(req, line),
                        raw, end + 2)

\* http_request_parse on a non-NULL request and input
http_request_parse(req, raw) ==
    LET r == parse_lines(req, raw, 0)
    IN [req |-> [r.req EXCEPT !.body =
                    IF r.start < string_length(raw)
                    THEN string_substring(raw, r.start,
                                          Wrap(string_length(raw) - r.start))
                    ELSE @],
        ret |-> TRUE]

(* ------------------------------------------------------------------ *)
(* Response serializer (http.c)                                       *)
(* ------------------------------------------------------------------ *)
\* the byte 0
NUL == "\\0"

\* strlen: the bytes a C string function sees, up to the first byte 0
CStr(bytes) ==
    LET z == FirstIndex(bytes, LAMBDA c : c = NUL)
    IN IF z = 0 THEN bytes ELSE SubSeq(bytes, 1, z - 1)

\* string_append_cstr (a NULL pointer is the empty sequence: both return early)
string_append_cstr(str, cstr) == str \o CStr(cstr)

\* string_append: appends other->data as a C string
string_append(str, other) ==
    IF Len(other) = 0 THEN str ELSE string_append_cstr(str, other)

\* string_append_bytes: appends len bytes
string_append_bytes(str, bytes) == str \o bytes

\* the header loop of http_response_send from header i on
RECURSIVE append_headers(_, _, _)
append_headers(builder, headers, i) ==
    IF i > Len(headers) THEN builder
    ELSE append_headers(
            string_append_cstr(
              string_append_cstr(
                string_append_cstr(
                  string_append_cstr(builder, headers[i].key),
                  COLON_SP),
                headers[i].value),
              CRLF),
            headers, i + 1)

\* the string http_response_send builds before it calls send
response_bytes(response) ==
    LET b1 == string_append_cstr(string_append_cstr(<<>>, response.status), CRLF)
        b2 == string_append_cstr(append_headers(b1, response.headers, 1), CRLF)
    IN IF response.encoding = "COMPRESSION_NONE"
       THEN string_append(b2, response.body)
       ELSE IF response.encoding = "COMPRESSION_GZIP"
       THEN string_append_bytes(b2, response.raw_body)
       ELSE b2

\* http_response_send on a non-NULL response and a valid descriptor; sendOk
\* is whether send() succeeded; wire is what went out on the socket
http_response_send(response, sendOk) ==
    [ret |-> sendOk, wire |-> IF sendOk THEN response_bytes(response) ELSE <<>>]

(* ------------------------------------------------------------------ *)
(* The built-in POST_ROUTE layers that set headers of the response     *)
(* ------------------------------------------------------------------ *)
S_Connection == <<"C", "o", "n", "n", "e", "c", "t", "i", "o", "n">>
S_close == <<"c", "l", "o", "s", "e">>
S_ContentEncoding == <<"C", "o", "n", "t", "e", "n", "t", "-", "E", "n", "c", "o", "d", "i", "n", "g">>
S_ContentLength == <<"C", "o", "n", "t", "e", "n", "t", "-", "L", "e", "n", "g", "t", "h">>
S_gzip == <<"g", "z", "i", "p">>
S_br == <<"b", "r">>
Digits == <<"0", "1", "2", "3", "4", "5", "6", "7", "8", "9">>

\* snprintf("%zu"): the decimal digits of n
RECURSIVE Decimal(_)
Decimal(n) ==
    IF n < 10 THEN <<Digits[n + 1]>>
    ELSE Decimal(n \div 10) \o <<Digits[(n % 10) + 1]>>

\* string_byte_length
string_byte_length(str) == Len(str)

\* HeaderArray_push(response->headers, header)
push_header(resp, key, value) ==
    [resp EXCEPT !.headers = Append(@, [key |-> key, value |-> value])]

\* content_encoding_layer: accept is the list of encodings in the
\* request's Accept-Encoding header (NoHeader: none); z is what
\* gzip_string gave (<<>>: it failed)
NoHeader == <<"-">>
content_encoding_layer(accept, resp, z) ==
    IF accept = NoHeader \/ FirstIndex(accept, LAMBDA e : e = S_gzip) = 0
    THEN [resp |-> resp, ret |-> FALSE]
    ELSE LET r1 == [push_header(resp, S_ContentEncoding, S_gzip)
                       EXCEPT !.encoding = "COMPRESSION_GZIP"]
         IN IF z = <<>> THEN [resp |-> r1, ret |-> FALSE]
            ELSE [resp |-> push_header([r1 EXCEPT !.raw_body = z],
                                       S_ContentLength, Decimal(Len(z))),
                  ret |-> TRUE]

\* content_length_layer
content_length_layer(resp) ==
    IF resp.encoding = "COMPRESSION_GZIP" THEN [resp |-> resp, ret |-> TRUE]
    ELSE [resp |-> push_header(resp, S_ContentLength,
                               Decimal(string_byte_length(resp.body))),
          ret |-> TRUE]

\* connection_close_layer
connection_close_layer(close, resp) ==
    [resp |-> IF close THEN push_header(resp, S_Connection, S_close) ELSE resp,
     ret |-> TRUE]

\* pthread_create(&thread, NULL, handle_client_request, request): a new
\* thread at the first statement of handle_client_request, with
\* client_fd = request->client_fd
NewWorker(conn, fd, request) ==
    [conn |-> conn, fd |-> fd, ctx |-> request, pc |-> "recv",
     active |-> TRUE, keep |-> TRUE, reads |-> 0, closes |-> 0,
     releases |-> 0, prev |-> NULL]
pthread_create_twice(workers, conn, fd, request) ==
    workers \o <<NewWorker(conn, fd, request), NewWorker(conn, fd, request)>>
pthread_create(workers, conn, fd, request) ==
    Append(workers, NewWorker(conn, fd, request))

(* ------------------------------------------------------------------ *)
(* Growable array (array.h, ARRAY_DEFINE); an array is its live        *)
(* elements data[0..size-1], its size and its capacity; every call      *)
(* yields [arr |-> array after, ret |-> returned bool, out |-> *out]    *)
(* ------------------------------------------------------------------ *)
Array_new == [data |-> <<>>, size |-> 0, capacity |-> 0]
Array_fail(a) == [arr |-> a, ret |-> FALSE, out |-> 0]

\* the growth step of push and insert: capacity doubles, or becomes 8
Array_grow_if_full(a) ==
    IF a.size = a.capacity
    THEN [a EXCEPT !.capacity = IF a.capacity # 0 THEN a.capacity * 2 ELSE 8]
    ELSE a

Array_push(a, v) ==
    LET g == Array_grow_if_full(a)
    IN [arr |-> [g EXCEPT !.data = [i \in 0..g.size |->
                                       IF i = g.size THEN v ELSE g.data[i]],
                          !.size = g.size + 1],
        ret |-> TRUE, out |-> 0]

Array_insert(a, idx, v) ==
    IF idx > a.size THEN Array_fail(a)
    ELSE LET g == Array_grow_if_full(a)
         IN [arr |-> [g EXCEPT !.data = [i \in 0..g.size |->
                                            IF i < idx THEN g.data[i]
                                            ELSE IF i = idx THEN v
                                            ELSE g.data[i - 1]],
                               !.size = g.size + 1],
             ret |-> TRUE, out |-> 0]

Array_pop(a) ==
    IF a.size = 0 THEN Array_fail(a)
    ELSE [arr |-> [a EXCEPT !.data = [i \in 0..(a.size - 2) |-> a.data[i]],
                            !.size = a.size - 1],
          ret |-> TRUE, out |-> a.data[a.size - 1]]

\* variant of remove that fills the hole with the last element
Array_remove_swap_last(a, idx) ==
    IF idx >= a.size THEN Array_fail(a)
    ELSE [arr |-> [a EXCEPT !.data = [i \in 0..(a.size - 2) |->
                                         IF i = idx THEN a.data[a.size - 1]
                                         ELSE a.data[i]],
                            !.size = a.size - 1],
          ret |-> TRUE, out |-> a.data[idx]]

Array_remove(a, idx) ==
    IF idx >= a.size THEN Array_fail(a)
    ELSE [arr |-> [a EXCEPT !.data = [i \in 0..(a.size - 2) |->
                                         IF i < idx THEN a.data[i]
                                         ELSE a.data[i + 1]],
                            !.size = a.size - 1],
          ret |-> TRUE, out |-> a.data[idx]]

Array_set(a, idx, v) ==
    IF idx >= a.size THEN Array_fail(a)
    ELSE [arr |-> [a EXCEPT !.data[idx] = v], ret |-> TRUE, out |-> 0]

Array_get(a, idx) ==
    IF idx >= a.size THEN Array_fail(a)
    ELSE [arr |-> a, ret |-> TRUE, out |-> a.data[idx]]

Array_size(a) == [arr |-> a, ret |-> TRUE, out |-> a.size]

Array_clear(a) ==
    [arr |-> [a EXCEPT !.data = <<>>, !.size = 0], ret |-> TRUE, out |-> 0]

\* init_size: capacity for size elements (0 when pmalloc failed)
Array_init_size(size, ok) ==
    [Array_new EXCEPT !.capacity = IF ok THEN size ELSE 0]

\* the capacity a full array asks for in push and insert
Array_newcap_plus_one(a) == a.capacity + 1
Array_newcap(a) == Array_grow_if_full([a EXCEPT !.size = a.capacity]).capacity

\* grow: capacity becomes newcap when that is more
Array_grow(a, newcap) ==
    [arr |-> IF newcap > a.capacity THEN [a EXCEPT !.capacity = newcap] ELSE a,
     ret |-> TRUE, out |-> 0]

\* a->data[i] = v and size = i + 1, the last statement of push
Array_store(a, i, v) ==
    [a EXCEPT !.data = [k \in 0..i |->
                           IF k = i THEN v
                           ELSE IF k \in DOMAIN a.data THEN a.data[k] ELSE 0],
              !.size = i + 1]

\* destroy: data = NULL, size = capacity = 0
Array_destroy(a) == [arr |-> Array_new, ret |-> TRUE, out |-> 0]

\* variant of the release in destroy that releases the whole group
Array_destroy_storage_whole_group(r, data, tag) == pfree_tag(r, tag, AllOk)
\* the release in destroy: pfree(a->data)
Array_destroy_storage(r, data, tag) == pfree(r, data)

\* the lock of an array: 0 when free, else the thread that holds it
NoHolder == 0
\* variant of the lock that lets a thread in while another holds it
ARR_MUTEX_LOCK_never_waits(lock) == TRUE
\* pthread_mutex_lock returns once the mutex is free
ARR_MUTEX_LOCK_WRITE(lock) == lock = NoHolder

\* the address of element i of an array whose storage starts at data:
\* beyond the first element it lies inside the storage block, where no
\* block starts
Array_get_ptr(data, i) == data + i

\* string_free
string_free(r, str) == pfree(r, str)

\* layer_free: string_free(layer->name) when it is set, then pfree(layer)
layer_free(r, name, layer) ==
    LET r1 == IF name = NULL THEN [r |-> r, ret |-> NULL, fatal |-> FALSE]
              ELSE string_free(r, name)
    IN IF r1.fatal THEN r1 ELSE pfree(r1.r, layer)

(* ------------------------------------------------------------------ *)
(* Connection coordinator (handle_client_request)                     *)
(* ------------------------------------------------------------------ *)
\* the descriptor accept returned; TAG(client_fd) is the connection's tag
client_fd == 4
ConnTag == client_fd


\* pmalloc of each object of a list, in order (the record count of a
\* registry is never negative)
RECURSIVE alloc_all(_, _, _)
alloc_all(r, objs, tag) ==
    IF objs = <<>> \/ r.count < 0 THEN r
    ELSE alloc_all(pmalloc(r, 1, tag, AddrOf(Head(objs)), AllOk).r,
                   Tail(objs), tag)

\* pfree of each object of a list, in order (0: a NULL pointer)
RECURSIVE free_all(_, _)
free_all(res, objs) ==
    IF objs = <<>> \/ res.fatal THEN res
    ELSE free_all(pfree(res.r, IF Head(objs) = 0 THEN NULL
                               ELSE AddrOf(Head(objs))),
                  Tail(objs))

\* http_request_new, string_new(buffer) and http_request_parse: what they
\* allocate for the request req parsed from the bytes raw
parse_allocs(req, raw) ==
    <<O_REQ, O_REQ_HEADERS, O_TARGET0, O_BODY0, O_RAW>>
    \o (IF string_find_cstr(raw, CRLF, 0) # SIZE_MAX
           /\ string_find_cstr(raw, CRLF, 0) # 0
        THEN <<O_TMP, O_TARGET>> ELSE <<>>)
    \o (IF Len(req.headers) > 0 THEN <<O_HDATA, O_HDR_KV>> ELSE <<>>)
    \o (IF Len(req.body) > 0 THEN <<O_BODY>> ELSE <<>>)

\* what request->request_line.target, request->headers->data and
\* request->body point to after the parse
parse_fields(req, raw) ==
    [target |-> IF string_find_cstr(raw, CRLF, 0) # SIZE_MAX
                   /\ string_find_cstr(raw, CRLF, 0) # 0
                THEN O_TARGET ELSE O_TARGET0,
     hdata |-> IF Len(req.headers) > 0 THEN O_HDATA ELSE 0,
     body |-> IF Len(req.body) > 0 THEN O_BODY ELSE O_BODY0]

\* http_request_free: target, headers->data, body, the request
http_request_free(r, fields) ==
    free_all([r |-> r, ret |-> NULL, fatal |-> FALSE],
             <<fields.target, fields.hdata, fields.body, O_REQ>>)

\* http_response_free: headers->data (never allocated here), body, response
http_response_free(r) ==
    free_all([r |-> r, ret |-> NULL, fatal |-> FALSE],
             <<0, O_RESP_BODY, O_RESP>>)

\* variant of the lookup that returns the last header with the key
http_request_get_header_last(req, key) ==
    LET hit == {i \in 1..Len(req.headers) : string_equals(req.headers[i].key, key)}
    IN IF hit = {} THEN 0 ELSE CHOOSE i \in hit : \A j \in hit : j <= i

\* http_response_get_header: the same scan over the response's headers
http_response_get_header(resp, key) ==
    FirstIndex(resp.headers, LAMBDA h : string_equals(h.key, key))

\* http_request_get_header: index of the first header with the key, 0 if none
http_request_get_header(req, key) ==
    FirstIndex(req.headers, LAMBDA h : string_equals(h.key, key))

\* the keep-alive decision: the value of active after it
keep_alive(req) ==
    LET i == http_request_get_header(req, S_Connection)
    IN ~(i # 0 /\ string_equals(req.headers[i].value, S_close))

\* variant of next_step that routes before the PRE_ROUTE layers
next_step_route_first(step, ok, failed, active) ==
    CASE step = "recv" -> IF ok THEN "parse" ELSE "close"
      [] step = "parse" -> IF ok THEN "new_response" ELSE "cleanup"
      [] step = "new_response" -> "route"
      [] step = "route" -> "pre_route"
      [] step = "pre_route" -> "post_route"
      [] step = "post_route" -> "send"
      [] step = "send" -> IF ok THEN "keepalive" ELSE "cleanup"
      [] step = "keepalive" -> "cleanup"
      [] step = "cleanup" -> "free_request"
      [] step = "free_request" ->
            IF failed = "parse" THEN "close" ELSE "free_response"
      [] step = "free_response" ->
            IF failed = "send" THEN "close" ELSE "pfree_tag"
      [] step = "pfree_tag" -> IF active THEN "recv" ELSE "close"
      [] OTHER -> "closed"

\* variant of next_step that reads the next request right after a response
next_step_early_read(step, ok, failed, active) ==
    CASE step = "recv" -> IF ok THEN "parse" ELSE "close"
      [] step = "parse" -> IF ok THEN "new_response" ELSE "cleanup"
      [] step = "new_response" -> "pre_route"
      [] step = "pre_route" -> "route"
      [] step = "route" -> "post_route"
      [] step = "post_route" -> "send"
      [] step = "send" -> IF ok THEN "keepalive" ELSE "cleanup"
      [] step = "keepalive" -> IF active THEN "recv" ELSE "cleanup"
      [] step = "cleanup" -> "free_request"
      [] step = "free_request" ->
            IF failed = "parse" THEN "close" ELSE "free_response"
      [] step = "free_response" ->
            IF failed = "send" THEN "close" ELSE "pfree_tag"
      [] step = "pfree_tag" -> IF active THEN "recv" ELSE "close"
      [] OTHER -> "closed"

\* variant of next_step that reads again after a failed read
next_step_retry_read(step, ok, failed, active) ==
    CASE step = "recv" -> IF ok THEN "parse" ELSE "recv"
      [] step = "parse" -> IF ok THEN "new_response" ELSE "cleanup"
      [] step = "new_response" -> "pre_route"
      [] step = "pre_route" -> "route"
      [] step = "route" -> "post_route"
      [] step = "post_route" -> "send"
      [] step = "send" -> IF ok THEN "keepalive" ELSE "cleanup"
      [] step = "keepalive" -> "cleanup"
      [] step = "cleanup" -> "free_request"
      [] step = "free_request" ->
            IF failed = "parse" THEN "close" ELSE "free_response"
      [] step = "free_response" ->
            IF failed = "send" THEN "close" ELSE "pfree_tag"
      [] step = "pfree_tag" -> IF active THEN "recv" ELSE "close"
      [] OTHER -> "closed"

\* variant of next_step that gives the cycle up when a stage returns false
next_step_stage_failure_ends_cycle(step, ok, failed, active) ==
    CASE step = "recv" -> IF ok THEN "parse" ELSE "close"
      [] step = "parse" -> IF ok THEN "new_response" ELSE "cleanup"
      [] step = "new_response" -> "pre_route"
      [] step = "pre_route" -> IF ok THEN "route" ELSE "cleanup"
      [] step = "route" -> "post_route"
      [] step = "post_route" -> IF ok THEN "send" ELSE "cleanup"
      [] step = "send" -> IF ok THEN "keepalive" ELSE "cleanup"
      [] step = "keepalive" -> "cleanup"
      [] step = "cleanup" -> "free_request"
      [] step = "free_request" ->
            IF failed = "parse" THEN "close" ELSE "free_response"
      [] step = "free_response" ->
            IF failed = "send" THEN "close" ELSE "pfree_tag"
      [] step = "pfree_tag" -> IF active THEN "recv" ELSE "close"
      [] OTHER -> "closed"

\* the control flow of handle_client_request: the statement that follows
\* step; ok is the outcome of recv, of the parse or of the send, failed says
\* which of parse and send failed in this cycle
next_step(step, ok, failed, active) ==
    CASE step = "recv" -> IF ok THEN "parse" ELSE "close"
      [] step = "parse" -> IF ok THEN "new_response" ELSE "cleanup"
      [] step = "new_response" -> "pre_route"
      [] step = "pre_route" -> "route"
      [] step = "route" -> "post_route"
      [] step = "post_route" -> "send"
      [] step = "send" -> IF ok THEN "keepalive" ELSE "cleanup"
      [] step = "keepalive" -> "cleanup"
      [] step = "cleanup" -> "free_request"
      [] step = "free_request" ->
            IF failed = "parse" THEN "close" ELSE "free_response"
      [] step = "free_response" ->
            IF failed = "send" THEN "close" ELSE "pfree_tag"
      [] step = "pfree_tag" -> IF active THEN "recv" ELSE "close"
      [] OTHER -> "closed"

(* ------------------------------------------------------------------ *)
(* Inputs of the router, the layers and the parser                    *)
(* ------------------------------------------------------------------ *)
NumThreads == 2
MaxRoutes == 2
MaxLayers == 3
MaxHeaders == 2
MaxCalls == 4

Threads == 1..NumThreads

P_ROOT == <<"/">>
P_FIL == <<"/", "f", "i", "l">>
P_FILES == <<"/", "f", "i", "l", "e", "s">>
P_README == <<"/", "f", "i", "l", "e", "s", "/", "r", "e", "a", "d", "m", "e">>
RoutePaths == {P_ROOT, P_FILES, P_README}
Targets == {P_ROOT, P_FIL, P_FILES, P_README}
RouteMasks == {HTTP_GET, HTTP_GET + HTTP_POST}
RouteSet == [path : RoutePaths, methods : RouteMasks, exact_only : BOOLEAN]

LayerWhen == {"PRE_ROUTE", "POST_ROUTE", "CLEANUP"}
LayerSet == [when : LayerWhen, fn : BOOLEAN, can_fail : BOOLEAN]

S_BREW == <<"B", "R", "E", "W">>
S_get == <<"g", "e", "t">>
MethodTokens == {S_GET, S_POST, S_PUT, S_DELETE, S_PATCH, S_OPTIONS, S_HEAD,
                 S_BREW, S_get}
T_ECHO == <<"/", "e", "c", "h", "o", "/", "h", "i">>
TargetTokens == {T_ECHO, P_ROOT}
VersionTokens == {S_HTTP11, S_HTTP20, S_HTTP10}
L_HOST == <<"H", "o", "s", "t", ":", " ", "x">>
L_TWO == <<"A", ":", " ", "b", ":", " ", "c">>
L_JUNK == <<"j", "u", "n", "k">>
L_REQ == <<"P", "U", "T", " ", "/", "z", " ", "H", "T", "T", "P", "/", "2", ".", "0">>
HeaderLines == {L_HOST, L_TWO, L_JUNK, L_REQ}
S_BODY == <<"b", "o", "d", "y">>
\* what follows the header lines: nothing, the empty line, the empty line and
\* a body, or bytes that no CRLF ends
Tails == {"none", "blank", "body", "cut"}
\* the first line: a request line, no byte at all, a line without spaces,
\* or a request line that no CRLF ends
Kinds == {"request", "empty", "nospace", "nocrlf"}

MaxRespHeaders == 2
S_200 == <<"H", "T", "T", "P", "/", "1", ".", "1", " ", "2", "0", "0", " ", "O", "K">>
H_TYPE == [key |-> <<"T", "y", "p", "e">>, value |-> <<"t", "e", "x", "t">>]
H_LEN == [key |-> <<"L", "e", "n">>, value |-> <<"2">>]
\* a status the handler set, or NULL as http_response_new leaves it
Statuses == {S_200, <<>>}
Bodies == {<<>>, <<"h", "i">>, <<"h", NUL, "i">>}
RawBodies == {<<>>, <<"z", NUL, "z">>}
Encodings == {"COMPRESSION_NONE", "COMPRESSION_GZIP"}

MaxRequests == 3
MaxConns == 2
L_CLOSE == S_Connection \o COLON_SP \o S_close
L_KEEP == S_Connection \o COLON_SP
          \o <<"k", "e", "e", "p", "-", "a", "l", "i", "v", "e">>

SeqsUpTo(S, n) == UNION {[1..k -> S] : k \in 0..n}

RECURSIVE JoinLines(_)
JoinLines(lines) ==
    IF lines = <<>> THEN <<>>
    ELSE Head(lines) \o CRLF \o JoinLines(Tail(lines))

\* the bytes of an input: the first line, the header lines, and the tail
RawText(in) ==
    IF in.kind = "empty" THEN <<>>
    ELSE IF in.kind = "nocrlf"
    THEN in.method \o SP \o in.target \o SP \o in.version
    ELSE (IF in.kind = "nospace" THEN L_JUNK
          ELSE in.method \o SP \o in.target \o SP \o in.version)
         \o CRLF
         \o JoinLines(in.hdrs)
         \o (IF in.tail = "none" THEN <<>>
             ELSE IF in.tail = "blank" THEN CRLF
             ELSE IF in.tail = "body" THEN CRLF \o S_BODY
             ELSE S_BODY)

RequestInputs ==
    [kind : {"request"}, method : MethodTokens, target : TargetTokens,
     version : VersionTokens, hdrs : SeqsUpTo(HeaderLines, MaxHeaders),
     tail : Tails]
MalformedInputs ==
    [kind : {"empty", "nocrlf"}, method : {S_GET}, target : {P_ROOT},
     version : {S_HTTP11}, hdrs : {<<>>}, tail : {"none"}]
    \cup
    [kind : {"nospace"}, method : {S_GET}, target : {P_ROOT},
     version : {S_HTTP11}, hdrs : SeqsUpTo({L_HOST}, 1), tail : Tails]
ParseInputs == RequestInputs \cup MalformedInputs

\* the requests a client sends on the connection
ConnInputs ==
    [kind : {"request"}, method : {S_GET, S_BREW}, target : {P_ROOT},
     version : {S_HTTP11}, hdrs : SeqsUpTo({L_CLOSE, L_KEEP}, MaxHeaders),
     tail : {"blank", "body"}]

\* header keys that differ in case or are a prefix of one another, and the
\* names looked up (one of them is never a key)
K_A == <<"A">>
K_a == <<"a">>
K_Ab == <<"A", "b">>
K_B == <<"B">>
HeaderKeys == {K_A, K_a, K_Ab}
HeaderNames == HeaderKeys \cup {K_B}
HeaderValues == {<<"1">>, <<"2">>}
MaxStored == 3
\* elements stored in the array, and how many it may hold (one more than
\* the first capacity, so that it grows once)
\* the layers of the server: any stage, succeeding or failing, hard or soft
PipeLayerSet == [when : LayerStages, fn : BOOLEAN, can_fail : BOOLEAN]
MaxPipeLayers == 2
MaxCycles == 2
\* the mark the route handler leaves on the response
HANDLER == 0
Elements == {1, 2}
\* one array shared by the threads: the addresses malloc has for its
\* storage and for the buffers of its elements, its tag, the calls made
NumSeqAddrs == 4
SeqAddrs == {AddrOf(i) : i \in 1..NumSeqAddrs}
SeqTag == TagOf(1)
MaxSeqCalls == 2
SeqInitSizes == {0, 1}
SeqIndexes == {0, 1}
SeqNewCaps == {2, 3}
\* the layer context of a server: its tag, the layers added to it, what a
\* read of released storage can give
ServerTag == TagOf(1)
MaxTearLayers == 2
StaleReads == {"intact", "zero", "wild"}
\* what a request says it accepts, and what gzip_string can give
AcceptInputs == {NoHeader, <<S_br>>, <<S_gzip>>, <<S_br, S_gzip>>}
GzipResults == RawBodies
\* the threads the accept loop may start, the requests one of them reads
MaxWorkers == 2
MaxWorkerReads == 1
SeqOps == {"push", "insert", "pop", "remove", "set", "get", "size", "clear",
           "grow", "destroy"}
SeqArgs(op) ==
    IF op \in {"insert", "remove", "set", "get"} THEN SeqIndexes
    ELSE IF op = "grow" THEN SeqNewCaps
    ELSE {0}
MaxElems == 9
Indexes == 0..(MaxElems + 1)

Responses ==
    [status : Statuses, headers : SeqsUpTo({H_TYPE, H_LEN}, MaxRespHeaders),
     body : Bodies, raw_body : RawBodies, encoding : Encodings]
NoResponse == [status |-> <<>>, headers |-> <<>>, body |-> <<>>,
               raw_body |-> <<>>, encoding |-> "COMPRESSION_NONE"]

NoInput == [kind |-> "empty", method |-> <<>>, target |-> <<>>, version |-> <<>>,
            hdrs |-> <<>>, tail |-> "none"]

(* ------------------------------------------------------------------ *)
(* State                                                              *)
(* ------------------------------------------------------------------ *)
VARIABLES
    g_alloc_table,   \* bucket -> chain of alloc_info records
    g_tag_table,     \* bucket -> chain of tag_entry
    g_alloc_count,
    g_tag_count,
    heap,            \* blocks currently handed out by malloc/calloc/realloc
    double_free,     \* free() was called on a block that was not handed out
    fatal,           \* the process died in assert(0)
    faults,          \* whether internal bookkeeping allocations may fail
    last,            \* the registry call the caller has just returned from:
                     \* arguments, result, and what the registry held for
                     \* them before the call (op "none": no call pending)
    pc,              \* per thread: where it is inside a registry call
    loc,             \* per thread: the locals of that call
    owned,           \* per thread: the blocks it was handed and has not freed
    calls,           \* registry calls the threads have started
    routes,          \* router->routes
    routed,          \* the last router_route call and its outcome
    layers,          \* ctx->layers
    applied,         \* the last layers_apply call and its outcome
    input,           \* the request bytes received
    request,         \* the HttpRequest being filled
    parsed,          \* whether http_request_parse ran, and what it returned
    response,        \* the HttpResponse handed to http_response_send
    sent,            \* whether http_response_send ran, its result, the bytes
                     \* on the socket, and the response as it was before
    c_pc,            \* the statement of handle_client_request to run next
    c_active,        \* its local variable active
    c_failed,        \* whether the parse or the send of this cycle failed
    c_in,            \* the request received in this cycle
    c_req,           \* the HttpRequest of this cycle
    c_fields,        \* the objects its target, headers->data and body are
    c_reads,         \* requests read on the connection so far
    c_hist,          \* what the coordinator did, with the request's number
    c_swept,         \* members the tag's group had when pfree_tag was called
    h_headers,       \* the headers of a request or response, in insertion order
    h_found,         \* the last header lookup and the header it returned
    arr,             \* an array of the ARRAY_DEFINE family
    a_ref,           \* the list the same calls build on a plain sequence
    a_last,          \* the last call on the array, what it returned and what
                     \* the same call returns on the list
    p_layers,        \* server->layer_ctx->layers
    p_pc,            \* the statement of handle_client_request to run next
    p_reads,         \* requests read on the connection so far
    p_active,        \* the local variable active
    p_failed,        \* whether the parse or the send of this cycle failed
    p_marks,         \* what the layers and the handler did to the response
                     \* of this cycle, in the order they ran
    p_sent,          \* the response as it was sent in this cycle
    p_hist,          \* the statements run, with the request's number
    p_invoked,       \* the layer functions called, with stage and request
    re_loc,          \* per thread: the locals of a prealloc that relocates
    c_conns,         \* the connections accepted on the descriptor so far
    s_state,         \* the shared array: "raw" before init, then "ready"
    s_arr,           \* its elements, size and capacity
    s_data,          \* a->data: the address of its storage (NULL: none)
    s_bufs,          \* the buffers allocated for its elements
    s_mutex,         \* a->mutex: the thread that holds it
    s_pc,            \* per thread: where it is inside a call on the array
    s_call,          \* per thread: the call, its arguments and its result
    s_calls,         \* calls started
    s_ref,           \* the list that the calls which have gone through
                     \* the lock so far make, one after the other
    l_pc,            \* the layer context: "new", "setup", then the loop of
                     \* layers_free or layers_clear, its end, "done"
    l_op,            \* which of the two runs
    l_ctx,           \* the LayerCtx block
    l_data,          \* ctx->layers.data
    l_names,         \* the name of each layer in the array
    l_size,          \* ctx->layers.size
    l_i,             \* the loop index
    l_stale,         \* a layer was read from storage already released
    l_log,           \* the addresses passed to pfree, and whether they
                     \* had a record
    b_pc,            \* the response on its way through the POST_ROUTE
                     \* layers: the layer that runs next, "send", "sent"
    b_accept,        \* the request's Accept-Encoding
    b_close,         \* whether the request carries Connection: close
    b_resp,          \* the response
    b_wire,          \* what http_response_send has sent
    k_pc,            \* the statement of the accept loop to run next
    k_loc,           \* its locals client_fd and request, and info->next
    k_fds,           \* the client descriptors that are open
    k_accepted,      \* connections accepted so far
    k_workers        \* the threads running handle_client_request

regVars == <<g_alloc_table, g_tag_table, g_alloc_count, g_tag_count, heap,
             double_free, fatal, faults, last>>
threadVars == <<pc, loc, owned, calls>>
routerVars == <<routes, routed>>
layerVars == <<layers, applied>>
parserVars == <<input, request, parsed>>
senderVars == <<response, sent>>
connVars == <<c_pc, c_active, c_failed, c_in, c_req, c_fields, c_reads, c_hist,
              c_swept>>
hdrVars == <<h_headers, h_found>>
arrVars == <<arr, a_ref, a_last>>
pipeVars == <<p_layers, p_pc, p_reads, p_active, p_failed, p_marks, p_sent,
              p_hist, p_invoked>>
seqVars == <<s_state, s_arr, s_data, s_bufs, s_mutex, s_pc, s_call, s_calls,
             s_ref>>
tearVars == <<l_pc, l_op, l_ctx, l_data, l_names, l_size, l_i, l_stale, l_log>>
bltVars == <<b_pc, b_accept, b_close, b_resp, b_wire>>
wrkVars == <<k_pc, k_loc, k_fds, k_accepted, k_workers>>
moreVars == <<seqVars, tearVars, bltVars, wrkVars>>
extVars == <<hdrVars, arrVars, pipeVars, re_loc, c_conns, moreVars>>
vars == <<regVars, threadVars, routerVars, layerVars, parserVars, senderVars,
          connVars, extVars>>

Reg == [tab |-> g_alloc_table, tags |-> g_tag_table, count |-> g_alloc_count,
        tcount |-> g_tag_count, heap |-> heap, dfree |-> double_free]

SetReg(r) ==
    /\ g_alloc_table' = r.tab
    /\ g_tag_table' = r.tags
    /\ g_alloc_count' = r.count
    /\ g_tag_count' = r.tcount
    /\ heap' = r.heap
    /\ double_free' = r.dfree

NoFree == [ptr |-> NULL, tag |-> NULL]
NoCall == [op |-> "none", ptr |-> NULL, size |-> 0, tag |-> NULL,
           ret |-> NULL, hadInfo |-> FALSE, oldtag |-> NULL, tagged |-> {},
           members |-> {}, precount |-> 0, freed |-> NoFree]
NoLocals == [ptr |-> NULL, size |-> 0, tag |-> NULL, prev |-> NULL,
             next |-> <<>>]
NotRouted == [done |-> FALSE, method |-> HTTP_UNKNOWN, target |-> <<>>,
              called |-> <<>>, status |-> NoStatus, ret |-> FALSE]
NotApplied == [done |-> FALSE, stage |-> "INIT", invoked |-> <<>>,
               ret |-> FALSE]
NotParsed == [done |-> FALSE, ret |-> FALSE]
NotSent == [done |-> FALSE, ret |-> FALSE, wire |-> <<>>, before |-> NoResponse]

RegInit(fl) ==
    /\ g_alloc_table = EmptyRegistry.tab
    /\ g_tag_table = EmptyRegistry.tags
    /\ g_alloc_count = 0
    /\ g_tag_count = 0
    /\ heap = {}
    /\ double_free = FALSE
    /\ fatal = FALSE
    /\ faults = fl
    /\ last = NoCall
ThreadInit ==
    /\ pc = [t \in Threads |-> "idle"]
    /\ loc = [t \in Threads |-> NoLocals]
    /\ owned = [t \in Threads |-> {}]
    /\ calls = 0
RouterInit == routes = <<>> /\ routed = NotRouted
LayerInit == layers = <<>> /\ applied = NotApplied
ParserInit == input = NoInput /\ request = NewRequest /\ parsed = NotParsed
SenderInit == response = NoResponse /\ sent = NotSent
NoFields == [target |-> 0, hdata |-> 0, body |-> 0]
NotFound == [done |-> FALSE, fn |-> "none", name |-> <<>>, idx |-> 0]
HdrInit == h_headers = <<>> /\ h_found = NotFound
NoArrayCall == [op |-> "none", ret |-> TRUE, out |-> 0, ref_ret |-> TRUE,
                ref_out |-> 0]
ArrInit == arr = Array_new /\ a_ref = <<>> /\ a_last = NoArrayCall
NothingSent == [done |-> FALSE, marks |-> <<>>]
PipeInit ==
    /\ p_layers = <<>>
    /\ p_pc = "recv"
    /\ p_reads = 0
    /\ p_active = TRUE
    /\ p_failed = "no"
    /\ p_marks = <<>>
    /\ p_sent = NothingSent
    /\ p_hist = <<>>
    /\ p_invoked = <<>>
NoRealloc == [new_ptr |-> NULL, old_tag |-> NULL]
ReallocInit == re_loc = [t \in Threads |-> NoRealloc]
AcceptInit == c_conns = 1
NoSeqCall == [op |-> "none", arg |-> 0, v |-> NULL, ret |-> FALSE, out |-> 0,
              i |-> 0, oom |-> FALSE, overlap |-> FALSE]
SeqInit ==
    /\ s_state = "raw"
    /\ s_arr = Array_new
    /\ s_data = NULL
    /\ s_bufs = {}
    /\ s_mutex = NoHolder
    /\ s_pc = [t \in Threads |-> "idle"]
    /\ s_call = [t \in Threads |-> NoSeqCall]
    /\ s_calls = 0
    /\ s_ref = <<>>
TearInit ==
    /\ l_pc = "new"
    /\ l_op = "none"
    /\ l_ctx = NULL
    /\ l_data = NULL
    /\ l_names = <<>>
    /\ l_size = 0
    /\ l_i = 0
    /\ l_stale = FALSE
    /\ l_log = <<>>
BuiltinInit ==
    /\ b_pc = "route"
    /\ b_accept = NoHeader
    /\ b_close = FALSE
    /\ b_resp = NoResponse
    /\ b_wire = <<>>
NoAccLocals == [fd |-> 0, ptr |-> NULL, next |-> <<>>]
WorkersInit ==
    /\ k_pc = "accept"
    /\ k_loc = NoAccLocals
    /\ k_fds = {}
    /\ k_accepted = 0
    /\ k_workers = <<>>
MoreInit == SeqInit /\ TearInit /\ BuiltinInit /\ WorkersInit
ExtInit ==
    HdrInit /\ ArrInit /\ PipeInit /\ ReallocInit /\ AcceptInit /\ MoreInit
ConnInit ==
    /\ c_pc = "recv"
    /\ c_active = TRUE
    /\ c_failed = "no"
    /\ c_in = NoInput
    /\ c_req = NewRequest
    /\ c_fields = NoFields
    /\ c_reads = 0
    /\ c_hist = <<>>
    /\ c_swept = 0

Init ==
    /\ RegInit(FALSE) /\ ThreadInit /\ RouterInit /\ LayerInit /\ ParserInit
    /\ SenderInit /\ ConnInit /\ ExtInit

(* ------------------------------------------------------------------ *)
(* The registry called by one thread                                  *)
(* ------------------------------------------------------------------ *)
\* for a pfree_tag call: the block a directly preceding pfree released,
\* with the tag it had
JustFreed(op) == IF op = "pfree_tag" THEN last.freed ELSE NoFree

Outcomes == IF faults THEN BOOLEAN ELSE {TRUE}
FaultChoices == [info : Outcomes, entry : Outcomes, grow : Outcomes,
                 tmp : Outcomes]

\* addresses malloc can return now: any block not handed out, or NULL
MallocResults == (Addrs \ heap) \cup {NULL}
\* realloc: NULL, the same block, or a block not handed out
ReallocResults(ptr) == (Addrs \ heap) \cup {NULL, ptr}

Finish(op, ptr, size, tag, res) ==
    /\ SetReg(res.r)
    /\ fatal' = res.fatal
    /\ last' = [op |-> op, ptr |-> ptr, size |-> size, tag |-> tag,
                ret |-> res.ret,
                hadInfo |-> HasInfo(Reg, ptr),
                oldtag |-> find_alloc_info(Reg, ptr).tag,
                tagged |-> IF op = "pfree_tag" THEN TaggedLive(Reg, tag) ELSE {},
                members |-> IF op = "pfree_tag" THEN MembersOf(Reg, tag) ELSE {},
                precount |-> g_alloc_count,
                freed |-> JustFreed(op)]
    /\ UNCHANGED <<faults, threadVars, routerVars, layerVars, parserVars>>
    /\ UNCHANGED <<senderVars, connVars, extVars>>

PMalloc ==
    /\ ~fatal /\ last.op = "none"
    /\ \E size \in Sizes, tag \in Tags, addr \in MallocResults,
          f \in FaultChoices :
          Finish("pmalloc", NULL, size, tag, pmalloc(Reg, size, tag, addr, f))

PCalloc ==
    /\ ~fatal /\ last.op = "none"
    /\ \E n \in Sizes, size \in Sizes, tag \in Tags, addr \in MallocResults,
          f \in FaultChoices :
          /\ n * size <= MaxSize
          /\ Finish("pcalloc", NULL, n * size, tag,
                    pcalloc(Reg, n, size, tag, addr, f))

PRealloc ==
    /\ ~fatal /\ last.op = "none"
    /\ \E ptr \in Addrs \cup {NULL}, size \in Sizes, tag \in Tags,
          f \in FaultChoices :
          \E new_ptr \in (IF ptr = NULL THEN MallocResults
                          ELSE ReallocResults(ptr)) :
             Finish("prealloc", ptr, size, tag,
                    prealloc(Reg, ptr, size, tag, new_ptr, f))

PFree ==
    /\ ~fatal /\ last.op = "none"
    /\ \E ptr \in Addrs \cup {NULL} :
          Finish("pfree", ptr, 0, NULL, pfree(Reg, ptr))

PFreeTag ==
    /\ ~fatal /\ last.op = "none"
    /\ \E tag \in Tags, f \in FaultChoices :
          Finish("pfree_tag", NULL, 0, tag, pfree_tag(Reg, tag, f))

\* the caller takes the result and goes on to its next call; it remembers
\* the block it has just released with pfree
Resume ==
    /\ ~fatal /\ last.op # "none"
    /\ last' = [NoCall EXCEPT !.freed =
                    IF last.op = "pfree" /\ last.ptr # NULL
                    THEN [ptr |-> last.ptr, tag |-> last.oldtag]
                    ELSE NoFree]
    /\ UNCHANGED <<g_alloc_table, g_tag_table, g_alloc_count, g_tag_count,
                   heap, double_free, fatal, faults>>
    /\ UNCHANGED <<threadVars, routerVars, layerVars, parserVars>>
    /\ UNCHANGED <<senderVars, connVars, extVars>>

Next == PMalloc \/ PCalloc \/ PRealloc \/ PFree \/ PFreeTag \/ Resume
Spec == Init /\ [][Next]_vars

\* the same calls when malloc and realloc may also fail inside the registry
InitFaults ==
    /\ RegInit(TRUE) /\ ThreadInit /\ RouterInit /\ LayerInit /\ ParserInit
    /\ SenderInit /\ ConnInit /\ ExtInit
SpecFaults == InitFaults /\ [][Next]_vars

(* ------------------------------------------------------------------ *)
(* The registry called by several threads: the statements of           *)
(* register_allocation and unregister_allocation interleave            *)
(* ------------------------------------------------------------------ *)
Goto(t, label) == pc' = [pc EXCEPT ![t] = label]

\* pmalloc lines 199-207 and register_allocation lines 132-141:
\* malloc, fill in the record, info->next = g_alloc_table[index]
T_MallocStart(t) ==
    /\ ~fatal /\ pc[t] = "idle"
    /\ calls < MaxCalls
    /\ calls' = calls + 1
    /\ \E size \in Sizes, tag \in Tags, addr \in Addrs \ heap :
          /\ heap' = heap \cup {addr}
          /\ loc' = [loc EXCEPT ![t] =
                [ptr |-> addr, size |-> size, tag |-> tag, prev |-> NULL,
                 next |-> g_alloc_table[hash_pointer(addr, ALLOC_TABLE_INITIAL_SIZE)]]]
    /\ Goto(t, "reg_link")
    /\ UNCHANGED <<g_alloc_table, g_tag_table, g_alloc_count, g_tag_count,
                   double_free, fatal, faults, last, owned>>
    /\ UNCHANGED <<routerVars, layerVars, parserVars>>
    /\ UNCHANGED <<senderVars, connVars, extVars>>

\* register_allocation lines 142-143: g_alloc_table[index] = info; count++
T_RegLink(t) ==
    /\ ~fatal /\ pc[t] = "reg_link"
    /\ g_alloc_table' =
          [g_alloc_table EXCEPT
             ![hash_pointer(loc[t].ptr, ALLOC_TABLE_INITIAL_SIZE)] =
                <<[ptr |-> loc[t].ptr, size |-> loc[t].size,
                   tag |-> loc[t].tag]>> \o loc[t].next]
    /\ g_alloc_count' = g_alloc_count + 1
    /\ Goto(t, "reg_tag")
    /\ UNCHANGED <<g_tag_table, g_tag_count, heap, double_free, fatal, faults,
                   last, loc, owned, calls>>
    /\ UNCHANGED <<routerVars, layerVars, parserVars>>
    /\ UNCHANGED <<senderVars, connVars, extVars>>

\* register_allocation lines 146-153, then pmalloc returns the block
T_RegTag(t) ==
    /\ ~fatal /\ pc[t] = "reg_tag"
    /\ LET r1 == IF find_tag_entry(Reg, loc[t].tag) = 0
                 THEN create_tag_entry(Reg, loc[t].tag, TRUE) ELSE Reg
           r2 == add_ptr_to_tag(r1, loc[t].tag, loc[t].ptr, TRUE)
       IN /\ g_tag_table' = r2.tags
          /\ g_tag_count' = r2.tcount
    /\ owned' = [owned EXCEPT ![t] = @ \cup {loc[t].ptr}]
    /\ loc' = [loc EXCEPT ![t] = NoLocals]
    /\ Goto(t, "idle")
    /\ UNCHANGED <<g_alloc_table, g_alloc_count, heap, double_free, fatal,
                   faults, last, calls>>
    /\ UNCHANGED <<routerVars, layerVars, parserVars>>
    /\ UNCHANGED <<senderVars, connVars, extVars>>

\* pfree line 315 and unregister_allocation lines 160-166: walk the chain
\* to the record of a block this thread owns, keeping the record before it
\* (prev, NULL when it is first); assert(0) when there is no record
T_FreeStart(t) ==
    /\ ~fatal /\ pc[t] = "idle"
    /\ calls < MaxCalls
    /\ calls' = calls + 1
    /\ \E ptr \in owned[t] :
          LET chain == g_alloc_table[hash_pointer(ptr, ALLOC_TABLE_INITIAL_SIZE)]
              i == FirstIndex(chain, LAMBDA e : e.ptr = ptr)
          IN /\ owned' = [owned EXCEPT ![t] = @ \ {ptr}]
             /\ IF i = 0
                THEN /\ fatal' = TRUE
                     /\ UNCHANGED <<pc, loc>>
                ELSE /\ fatal' = FALSE
                     /\ loc' = [loc EXCEPT ![t] =
                           [ptr |-> ptr, size |-> chain[i].size,
                            tag |-> chain[i].tag,
                            prev |-> IF i = 1 THEN NULL ELSE chain[i - 1].ptr,
                            next |-> SubSeq(chain, i + 1, Len(chain))]]
                     /\ Goto(t, "unreg_unlink")
    /\ UNCHANGED <<g_alloc_table, g_tag_table, g_alloc_count, g_tag_count,
                   heap, double_free, faults, last>>
    /\ UNCHANGED <<routerVars, layerVars, parserVars>>
    /\ UNCHANGED <<senderVars, connVars, extVars>>

\* unregister_allocation lines 167-174: g_alloc_table[index] = info->next
\* when the record was first in its chain, else prev->next = info->next,
\* which changes the chain only while prev is still linked in it
T_Unlink(t) ==
    /\ ~fatal /\ pc[t] = "unreg_unlink"
    /\ LET h == hash_pointer(loc[t].ptr, ALLOC_TABLE_INITIAL_SIZE)
           chain == g_alloc_table[h]
           i == FirstIndex(chain, LAMBDA e : e.ptr = loc[t].ptr)
           j == FirstIndex(chain, LAMBDA e : e.ptr = loc[t].prev)
           info_next == IF i # 0 THEN SubSeq(chain, i + 1, Len(chain))
                        ELSE loc[t].next
       IN g_alloc_table' =
             [g_alloc_table EXCEPT ![h] =
                 IF loc[t].prev = NULL THEN info_next
                 ELSE IF j # 0 THEN SubSeq(chain, 1, j) \o info_next
                 ELSE chain]
    /\ g_alloc_count' = g_alloc_count - 1
    /\ Goto(t, "unreg_tag")
    /\ UNCHANGED <<g_tag_table, g_tag_count, heap, double_free, fatal, faults,
                   last, loc, owned, calls>>
    /\ UNCHANGED <<routerVars, layerVars, parserVars>>
    /\ UNCHANGED <<senderVars, connVars, extVars>>

\* unregister_allocation lines 177-187 and pfree lines 322-323
T_UnregTag(t) ==
    /\ ~fatal /\ pc[t] = "unreg_tag"
    /\ LET r1 == Free(remove_ptr_from_tag(Reg, loc[t].tag, loc[t].ptr),
                      loc[t].ptr)
       IN /\ g_tag_table' = r1.tags
          /\ heap' = r1.heap
          /\ double_free' = r1.dfree
    /\ loc' = [loc EXCEPT ![t] = NoLocals]
    /\ Goto(t, "idle")
    /\ UNCHANGED <<g_alloc_table, g_alloc_count, g_tag_count, fatal, faults,
                   last, owned, calls>>
    /\ UNCHANGED <<routerVars, layerVars, parserVars>>
    /\ UNCHANGED <<senderVars, connVars, extVars>>

NextThreads ==
    \E t \in Threads :
        \/ T_MallocStart(t)
        \/ T_RegLink(t)
        \/ T_RegTag(t)
        \/ T_FreeStart(t)
        \/ T_Unlink(t)
        \/ T_UnregTag(t)
SpecThreads == Init /\ [][NextThreads]_vars

(* ------------------------------------------------------------------ *)
(* prealloc that relocates the block, statement by statement, among    *)
(* the pmalloc and pfree calls of the other threads                    *)
(* ------------------------------------------------------------------ *)
OtherGroups ==
    UNCHANGED <<routerVars, layerVars, parserVars, senderVars, connVars,
                hdrVars, arrVars, pipeVars, c_conns, moreVars>>

\* prealloc lines 220-236: the record is found (assert(0) if not), then
\* realloc moves the block: the old block goes back to the allocator
T_ReallocStart(t) ==
    /\ ~fatal /\ pc[t] = "idle"
    /\ calls < MaxCalls
    /\ calls' = calls + 1
    /\ \E ptr \in owned[t], size \in Sizes, tag \in Tags,
          new_ptr \in Addrs \ heap :
          /\ owned' = [owned EXCEPT ![t] = @ \ {ptr}]
          /\ IF ~HasInfo(Reg, ptr)
             THEN /\ fatal' = TRUE
                  /\ UNCHANGED <<pc, loc, re_loc, heap>>
             ELSE /\ fatal' = FALSE
                  /\ heap' = (heap \ {ptr}) \cup {new_ptr}
                  /\ loc' = [loc EXCEPT ![t] =
                        [ptr |-> ptr, size |-> size, tag |-> tag,
                         prev |-> NULL, next |-> <<>>]]
                  /\ re_loc' = [re_loc EXCEPT ![t] =
                        [new_ptr |-> new_ptr,
                         old_tag |-> find_alloc_info(Reg, ptr).tag]]
                  /\ Goto(t, "re_unlink")
    /\ UNCHANGED <<g_alloc_table, g_tag_table, g_alloc_count, g_tag_count,
                   double_free, faults, last>>
    /\ OtherGroups

\* prealloc lines 242-258: take the first record of original_ptr out of
\* its chain
T_ReallocUnlink(t) ==
    /\ ~fatal /\ pc[t] = "re_unlink"
    /\ LET h == hash_pointer(loc[t].ptr, ALLOC_TABLE_INITIAL_SIZE)
           i == FirstIndex(g_alloc_table[h], LAMBDA e : e.ptr = loc[t].ptr)
       IN IF i = 0 THEN UNCHANGED <<g_alloc_table, g_alloc_count>>
          ELSE /\ g_alloc_table' = [g_alloc_table EXCEPT ![h] = RemoveAt(@, i)]
               /\ g_alloc_count' = g_alloc_count - 1
    /\ Goto(t, "re_untag")
    /\ UNCHANGED <<g_tag_table, g_tag_count, heap, double_free, fatal, faults,
                   last, loc, owned, calls, re_loc>>
    /\ OtherGroups

\* prealloc lines 260-279 and register_allocation lines 132-141: take
\* original_ptr out of the old tag's group, free the record, fill in the
\* record of new_ptr, info->next = g_alloc_table[index]
T_ReallocUntag(t) ==
    /\ ~fatal /\ pc[t] = "re_untag"
    /\ g_tag_table' = remove_ptr_from_tag(Reg, re_loc[t].old_tag, loc[t].ptr).tags
    /\ loc' = [loc EXCEPT ![t] =
          [ptr |-> re_loc[t].new_ptr, size |-> loc[t].size, tag |-> loc[t].tag,
           prev |-> NULL,
           next |-> g_alloc_table[hash_pointer(re_loc[t].new_ptr,
                                               ALLOC_TABLE_INITIAL_SIZE)]]]
    /\ re_loc' = [re_loc EXCEPT ![t] = NoRealloc]
    /\ Goto(t, "reg_link")
    /\ UNCHANGED <<g_alloc_table, g_alloc_count, g_tag_count, heap, double_free,
                   fatal, faults, last, owned, calls>>
    /\ OtherGroups

NextRealloc ==
    \E t \in Threads :
        \/ T_MallocStart(t)
        \/ T_RegLink(t)
        \/ T_RegTag(t)
        \/ T_FreeStart(t)
        \/ T_Unlink(t)
        \/ T_UnregTag(t)
        \/ T_ReallocStart(t)
        \/ T_ReallocUnlink(t)
        \/ T_ReallocUntag(t)
SpecRealloc == Init /\ [][NextRealloc]_vars

(* ------------------------------------------------------------------ *)
(* Router: registration, then dispatch of requests                    *)
(* ------------------------------------------------------------------ *)
\* router_add_route: append (setup time, before any request is routed)
RouterAddRoute ==
    /\ ~routed.done
    /\ Len(routes) < MaxRoutes
    /\ \E route \in RouteSet : routes' = Append(routes, route)
    /\ UNCHANGED <<routed, regVars, threadVars, layerVars, parserVars>>
    /\ UNCHANGED <<senderVars, connVars, extVars>>

\* router_route for one request with a fresh response
RouterRoute ==
    /\ \E method \in MethodValues, target \in Targets :
          LET res == router_route(routes, method, target)
          IN routed' = [done |-> TRUE, method |-> method, target |-> target,
                        called |-> res.called, status |-> res.status,
                        ret |-> res.ret]
    /\ UNCHANGED <<routes, regVars, threadVars, layerVars, parserVars>>
    /\ UNCHANGED <<senderVars, connVars, extVars>>

NextRouter == RouterAddRoute \/ RouterRoute
SpecRouter == Init /\ [][NextRouter]_vars

(* ------------------------------------------------------------------ *)
(* Layers: registration, then application of a stage                  *)
(* ------------------------------------------------------------------ *)
\* layers_add: append (setup time)
LayersAdd ==
    /\ ~applied.done
    /\ Len(layers) < MaxLayers
    /\ \E layer \in LayerSet : layers' = Append(layers, layer)
    /\ UNCHANGED <<applied, regVars, threadVars, routerVars, parserVars>>
    /\ UNCHANGED <<senderVars, connVars, extVars>>

\* layers_apply for one stage
LayersApply ==
    /\ \E stage \in LayerStages :
          LET res == layers_apply(layers, 1, stage, <<>>)
          IN applied' = [done |-> TRUE, stage |-> stage,
                         invoked |-> res.invoked, ret |-> res.ret]
    /\ UNCHANGED <<layers, regVars, threadVars, routerVars, parserVars>>
    /\ UNCHANGED <<senderVars, connVars, extVars>>

NextLayers == LayersAdd \/ LayersApply
SpecLayers == Init /\ [][NextLayers]_vars

(* ------------------------------------------------------------------ *)
(* Parser: a request is received into a fresh HttpRequest and parsed   *)
(* ------------------------------------------------------------------ *)
\* one read from the socket and http_request_new
RecvRequest ==
    /\ input = NoInput
    /\ \E in \in ParseInputs : input' = in
    /\ request' = NewRequest
    /\ parsed' = NotParsed
    /\ UNCHANGED <<regVars, threadVars, routerVars, layerVars>>
    /\ UNCHANGED <<senderVars, connVars, extVars>>

\* http_request_parse(request, request_string)
ParseRequest ==
    /\ input # NoInput /\ ~parsed.done
    /\ LET res == http_request_parse(request, RawText(input))
       IN /\ request' = res.req
          /\ parsed' = [done |-> TRUE, ret |-> res.ret]
    /\ UNCHANGED <<input, regVars, threadVars, routerVars, layerVars>>
    /\ UNCHANGED <<senderVars, connVars, extVars>>

\* the connection is done: the request is released with its tag
CloseConnection ==
    /\ parsed.done
    /\ input' = NoInput
    /\ request' = NewRequest
    /\ parsed' = NotParsed
    /\ UNCHANGED <<regVars, threadVars, routerVars, layerVars>>
    /\ UNCHANGED <<senderVars, connVars, extVars>>

NextParser == RecvRequest \/ ParseRequest \/ CloseConnection
SpecParser == Init /\ [][NextParser]_vars

(* ------------------------------------------------------------------ *)
(* Serializer: a response is filled in, sent and released              *)
(* ------------------------------------------------------------------ *)
\* the handlers and layers have filled in the response
FillResponse ==
    /\ response = NoResponse /\ ~sent.done
    /\ \E resp \in Responses \ {NoResponse} : response' = resp
    /\ UNCHANGED <<sent, regVars, threadVars, routerVars, layerVars,
                   parserVars, connVars, extVars>>

\* http_response_send(response, client_fd)
SendResponse ==
    /\ response # NoResponse /\ ~sent.done
    /\ \E sendOk \in BOOLEAN :
          LET res == http_response_send(response, sendOk)
          IN sent' = [done |-> TRUE, ret |-> res.ret, wire |-> res.wire,
                      before |-> response]
    /\ UNCHANGED <<response, regVars, threadVars, routerVars, layerVars,
                   parserVars, connVars, extVars>>

\* http_response_free
FreeResponse ==
    /\ sent.done
    /\ response' = NoResponse
    /\ sent' = NotSent
    /\ UNCHANGED <<regVars, threadVars, routerVars, layerVars, parserVars,
                   connVars, extVars>>

NextSender == FillResponse \/ SendResponse \/ FreeResponse
SpecSender == Init /\ [][NextSender]_vars

(* ------------------------------------------------------------------ *)
(* Header lookup on a request and on a response                       *)
(* ------------------------------------------------------------------ *)
\* HeaderArray_push of one more header
HeaderPush ==
    /\ Len(h_headers) < MaxStored
    /\ \E k \in HeaderKeys, v \in HeaderValues :
          h_headers' = Append(h_headers, [key |-> k, value |-> v])
    /\ h_found' = NotFound
    /\ UNCHANGED <<regVars, threadVars, routerVars, layerVars, parserVars,
                   senderVars, connVars, arrVars, pipeVars, re_loc,
                   c_conns, moreVars>>

\* http_request_get_header(request, name)
RequestGetHeader ==
    /\ \E name \in HeaderNames :
          h_found' = [done |-> TRUE, fn |-> "request", name |-> name,
                      idx |-> http_request_get_header([headers |-> h_headers],
                                                      name)]
    /\ UNCHANGED <<h_headers, regVars, threadVars, routerVars, layerVars,
                   parserVars, senderVars, connVars, arrVars, pipeVars, re_loc,
                   c_conns, moreVars>>

\* http_response_get_header(response, name)
ResponseGetHeader ==
    /\ \E name \in HeaderNames :
          h_found' = [done |-> TRUE, fn |-> "response", name |-> name,
                      idx |-> http_response_get_header([headers |-> h_headers],
                                                       name)]
    /\ UNCHANGED <<h_headers, regVars, threadVars, routerVars, layerVars,
                   parserVars, senderVars, connVars, arrVars, pipeVars, re_loc,
                   c_conns, moreVars>>

NextHeaders == HeaderPush \/ RequestGetHeader \/ ResponseGetHeader
SpecHeaders == Init /\ [][NextHeaders]_vars

(* ------------------------------------------------------------------ *)
(* Calls on one array, mirrored on a plain list                       *)
(* ------------------------------------------------------------------ *)
\* the same calls on a list: append, drop the last, insert before
\* position idx + 1, delete position idx + 1, replace, read, length, empty
RefPush(l, v) == [l |-> Append(l, v), ret |-> TRUE, out |-> 0]
RefPop(l) ==
    IF l = <<>> THEN [l |-> l, ret |-> FALSE, out |-> 0]
    ELSE [l |-> SubSeq(l, 1, Len(l) - 1), ret |-> TRUE, out |-> l[Len(l)]]
RefInsert(l, idx, v) ==
    IF idx > Len(l) THEN [l |-> l, ret |-> FALSE, out |-> 0]
    ELSE [l |-> SubSeq(l, 1, idx) \o <<v>> \o SubSeq(l, idx + 1, Len(l)),
          ret |-> TRUE, out |-> 0]
RefRemove(l, idx) ==
    IF idx >= Len(l) THEN [l |-> l, ret |-> FALSE, out |-> 0]
    ELSE [l |-> SubSeq(l, 1, idx) \o SubSeq(l, idx + 2, Len(l)),
          ret |-> TRUE, out |-> l[idx + 1]]
RefSet(l, idx, v) ==
    IF idx >= Len(l) THEN [l |-> l, ret |-> FALSE, out |-> 0]
    ELSE [l |-> SubSeq(l, 1, idx) \o <<v>> \o SubSeq(l, idx + 2, Len(l)),
          ret |-> TRUE, out |-> 0]
RefGet(l, idx) ==
    IF idx >= Len(l) THEN [l |-> l, ret |-> FALSE, out |-> 0]
    ELSE [l |-> l, ret |-> TRUE, out |-> l[idx + 1]]
RefSize(l) == [l |-> l, ret |-> TRUE, out |-> Len(l)]
RefClear(l) == [l |-> <<>>, ret |-> TRUE, out |-> 0]

\* a call has returned res on the array and ref on the list
ArrayCall(op, res, ref) ==
    /\ arr' = res.arr
    /\ a_ref' = ref.l
    /\ a_last' = [op |-> op, ret |-> res.ret, out |-> res.out,
                  ref_ret |-> ref.ret, ref_out |-> ref.out]
    /\ UNCHANGED <<regVars, threadVars, routerVars, layerVars, parserVars,
                   senderVars, connVars, hdrVars, pipeVars, re_loc,
                   c_conns, moreVars>>

ArrayPush ==
    /\ arr.size < MaxElems
    /\ \E v \in Elements : ArrayCall("push", Array_push(arr, v), RefPush(a_ref, v))
ArrayInsert ==
    /\ arr.size < MaxElems
    /\ \E idx \in Indexes, v \in Elements :
          ArrayCall("insert", Array_insert(arr, idx, v), RefInsert(a_ref, idx, v))
ArrayPop == ArrayCall("pop", Array_pop(arr), RefPop(a_ref))
ArrayRemove ==
    \E idx \in Indexes :
        ArrayCall("remove", Array_remove(arr, idx), RefRemove(a_ref, idx))
ArraySet ==
    \E idx \in Indexes, v \in Elements :
        ArrayCall("set", Array_set(arr, idx, v), RefSet(a_ref, idx, v))
ArrayGet ==
    \E idx \in Indexes :
        ArrayCall("get", Array_get(arr, idx), RefGet(a_ref, idx))
ArraySize == ArrayCall("size", Array_size(arr), RefSize(a_ref))
ArrayClear == ArrayCall("clear", Array_clear(arr), RefClear(a_ref))

NextArray ==
    \/ ArrayPush \/ ArrayInsert \/ ArrayPop \/ ArrayRemove \/ ArraySet
    \/ ArrayGet \/ ArraySize \/ ArrayClear
SpecArray == Init /\ [][NextArray]_vars

(* ------------------------------------------------------------------ *)
(* The layers in the request cycle of handle_client_request           *)
(* ------------------------------------------------------------------ *)
\* a statement of the loop has run: note it, go to the one that follows
PipeDone(step, ok) ==
    /\ p_pc' = next_step(step, ok, p_failed', p_active')
    /\ p_hist' = Append(p_hist, [ev |-> step, ok |-> ok, k |-> p_reads'])
    /\ UNCHANGED <<regVars, threadVars, routerVars, layerVars, parserVars,
                   senderVars, connVars, hdrVars, arrVars, re_loc,
                   c_conns, moreVars>>

\* layers_apply has called the functions of the layers res.invoked
PipeApplied(stage, res, hasResponse) ==
    /\ p_invoked' = p_invoked \o
          [j \in 1..Len(res.invoked) |->
              [stage |-> stage, layer |-> res.invoked[j], k |-> p_reads]]
    /\ p_marks' = IF hasResponse THEN p_marks \o res.invoked ELSE p_marks

\* layers_add while the server is set up, before it serves
PipeLayersAdd ==
    /\ p_hist = <<>>
    /\ Len(p_layers) < MaxPipeLayers
    /\ \E layer \in PipeLayerSet : p_layers' = Append(p_layers, layer)
    /\ UNCHANGED <<p_pc, p_reads, p_active, p_failed, p_marks, p_sent, p_hist,
                   p_invoked>>
    /\ UNCHANGED <<regVars, threadVars, routerVars, layerVars, parserVars,
                   senderVars, connVars, hdrVars, arrVars, re_loc,
                   c_conns, moreVars>>

\* recv: a request arrives, or the peer is gone or the read fails
PipeRecv ==
    /\ p_pc = "recv"
    /\ p_failed' = "no"
    /\ p_marks' = <<>>
    /\ p_sent' = NothingSent
    /\ UNCHANGED <<p_layers, p_active, p_invoked>>
    /\ \/ /\ p_reads < MaxCycles
          /\ p_reads' = p_reads + 1
          /\ PipeDone("recv", TRUE)
       \/ /\ UNCHANGED p_reads
          /\ PipeDone("recv", FALSE)

\* http_request_new, string_new(buffer) and http_request_parse, which
\* returns false when string_new returned NULL
PipeParse ==
    /\ p_pc = "parse"
    /\ UNCHANGED <<p_layers, p_reads, p_active, p_marks, p_sent, p_invoked>>
    /\ \E rawOk \in BOOLEAN :
          /\ p_failed' = IF rawOk THEN "no" ELSE "parse"
          /\ PipeDone("parse", rawOk)

\* http_response_new
PipeNewResponse ==
    /\ p_pc = "new_response"
    /\ UNCHANGED <<p_layers, p_reads, p_active, p_failed, p_marks, p_sent,
                   p_invoked>>
    /\ PipeDone("new_response", TRUE)

\* layers_apply(LAYER_PRE_ROUTE, request, response)
PipePreRoute ==
    /\ p_pc = "pre_route"
    /\ UNCHANGED <<p_layers, p_reads, p_active, p_failed, p_sent>>
    /\ LET res == layers_apply_call(p_layers, "PRE_ROUTE", TRUE, TRUE)
       IN PipeApplied("PRE_ROUTE", res, TRUE) /\ PipeDone("pre_route", res.ret)

\* router_route: the handler (or the 404 response) fills the response
PipeRoute ==
    /\ p_pc = "route"
    /\ p_marks' = Append(p_marks, HANDLER)
    /\ UNCHANGED <<p_layers, p_reads, p_active, p_failed, p_sent, p_invoked>>
    /\ PipeDone("route", TRUE)

\* layers_apply(LAYER_POST_ROUTE, request, response)
PipePostRoute ==
    /\ p_pc = "post_route"
    /\ UNCHANGED <<p_layers, p_reads, p_active, p_failed, p_sent>>
    /\ LET res == layers_apply_call(p_layers, "POST_ROUTE", TRUE, TRUE)
       IN PipeApplied("POST_ROUTE", res, TRUE) /\ PipeDone("post_route", res.ret)

\* http_response_send: send() succeeds or fails
PipeSend ==
    /\ p_pc = "send"
    /\ p_sent' = [done |-> TRUE, marks |-> p_marks]
    /\ UNCHANGED <<p_layers, p_reads, p_active, p_marks, p_invoked>>
    /\ \E sendOk \in BOOLEAN :
          /\ p_failed' = IF sendOk THEN "no" ELSE "send"
          /\ PipeDone("send", sendOk)

\* the check for a Connection: close header
PipeKeepAlive ==
    /\ p_pc = "keepalive"
    /\ \E close \in BOOLEAN : p_active' = ~close
    /\ UNCHANGED <<p_layers, p_reads, p_failed, p_marks, p_sent, p_invoked>>
    /\ PipeDone("keepalive", TRUE)

\* layers_apply(LAYER_CLEANUP, request, response), where response is NULL
\* after a failed parse
PipeCleanup ==
    /\ p_pc = "cleanup"
    /\ UNCHANGED <<p_layers, p_reads, p_active, p_failed, p_sent>>
    /\ LET res == layers_apply_call(p_layers, "CLEANUP", TRUE,
                                    p_failed # "parse")
       IN /\ PipeApplied("CLEANUP", res, p_failed # "parse")
          /\ PipeDone("cleanup", res.ret)

\* http_request_free, http_response_free, pfree_tag: none calls a layer
PipeRelease ==
    /\ p_pc \in {"free_request", "free_response", "pfree_tag"}
    /\ UNCHANGED <<p_layers, p_reads, p_active, p_failed, p_marks, p_sent,
                   p_invoked>>
    /\ PipeDone(p_pc, TRUE)

\* close(client_fd) after the loop
PipeClose ==
    /\ p_pc = "close"
    /\ UNCHANGED <<p_layers, p_reads, p_active, p_failed, p_marks, p_sent,
                   p_invoked>>
    /\ PipeDone("close", TRUE)

NextPipeline ==
    \/ PipeLayersAdd \/ PipeRecv \/ PipeParse \/ PipeNewResponse
    \/ PipePreRoute \/ PipeRoute \/ PipePostRoute \/ PipeSend
    \/ PipeKeepAlive \/ PipeCleanup \/ PipeRelease \/ PipeClose
SpecPipeline == Init /\ [][NextPipeline]_vars

(* ------------------------------------------------------------------ *)
(* One connection served by handle_client_request                     *)
(* ------------------------------------------------------------------ *)
\* a statement of the loop has run: note it, go to the one that follows
ConnDone(step, ok) ==
    /\ c_pc' = next_step(step, ok, c_failed', c_active')
    /\ c_hist' = Append(c_hist, [ev |-> step, ok |-> ok, k |-> c_reads'])
    /\ UNCHANGED <<faults, last, threadVars, routerVars, layerVars,
                   parserVars, senderVars, extVars>>

\* the registry after a statement that allocates or releases
ConnReg(res) == SetReg(res.r) /\ fatal' = res.fatal
ConnRegSame ==
    UNCHANGED <<g_alloc_table, g_tag_table, g_alloc_count, g_tag_count, heap,
                double_free, fatal>>

\* recv: a request arrives, or the peer is gone or the read fails
ConnRecv ==
    /\ ~fatal /\ c_pc = "recv"
    /\ c_failed' = "no"
    /\ ConnRegSame
    /\ UNCHANGED <<c_active, c_req, c_fields, c_swept>>
    /\ \/ /\ c_reads < MaxRequests
          /\ \E in \in ConnInputs : c_in' = in
          /\ c_reads' = c_reads + 1
          /\ ConnDone("recv", TRUE)
       \/ /\ UNCHANGED <<c_in, c_reads>>
          /\ ConnDone("recv", FALSE)

\* http_request_new, string_new(buffer), http_request_parse
ConnParse ==
    /\ ~fatal /\ c_pc = "parse"
    /\ UNCHANGED <<c_active, c_in, c_reads, c_swept>>
    /\ LET res == http_request_parse(NewRequest, RawText(c_in))
       IN /\ c_req' = res.req
          /\ c_fields' = parse_fields(res.req, RawText(c_in))
          /\ c_failed' = IF res.ret THEN "no" ELSE "parse"
          /\ ConnReg([r |-> alloc_all(Reg, parse_allocs(res.req, RawText(c_in)),
                                      ConnTag),
                      fatal |-> FALSE])
          /\ ConnDone("parse", res.ret)

\* http_response_new
ConnNewResponse ==
    /\ ~fatal /\ c_pc = "new_response"
    /\ ConnReg([r |-> alloc_all(Reg, <<O_RESP, O_RESP_HEADERS, O_RESP_BODY>>,
                                ConnTag),
                fatal |-> FALSE])
    /\ UNCHANGED <<c_active, c_failed, c_in, c_req, c_fields, c_reads, c_swept>>
    /\ ConnDone("new_response", TRUE)

\* layers_apply(LAYER_PRE_ROUTE)
ConnPreRoute ==
    /\ ~fatal /\ c_pc = "pre_route"
    /\ ConnRegSame
    /\ UNCHANGED <<c_active, c_failed, c_in, c_req, c_fields, c_reads, c_swept>>
    /\ ConnDone("pre_route", TRUE)

\* router_route
ConnRoute ==
    /\ ~fatal /\ c_pc = "route"
    /\ ConnRegSame
    /\ UNCHANGED <<c_active, c_failed, c_in, c_req, c_fields, c_reads, c_swept>>
    /\ ConnDone("route", TRUE)

\* layers_apply(LAYER_POST_ROUTE)
ConnPostRoute ==
    /\ ~fatal /\ c_pc = "post_route"
    /\ ConnRegSame
    /\ UNCHANGED <<c_active, c_failed, c_in, c_req, c_fields, c_reads, c_swept>>
    /\ ConnDone("post_route", TRUE)

\* http_response_send: send() succeeds or fails
ConnSend ==
    /\ ~fatal /\ c_pc = "send"
    /\ ConnRegSame
    /\ UNCHANGED <<c_active, c_in, c_req, c_fields, c_reads, c_swept>>
    /\ \E sendOk \in BOOLEAN :
          /\ c_failed' = IF sendOk THEN "no" ELSE "send"
          /\ ConnDone("send", sendOk)

\* the check for a Connection: close header
ConnKeepAlive ==
    /\ ~fatal /\ c_pc = "keepalive"
    /\ c_active' = keep_alive(c_req)
    /\ ConnRegSame
    /\ UNCHANGED <<c_failed, c_in, c_req, c_fields, c_reads, c_swept>>
    /\ ConnDone("keepalive", TRUE)

\* layers_apply(LAYER_CLEANUP)
ConnCleanup ==
    /\ ~fatal /\ c_pc = "cleanup"
    /\ ConnRegSame
    /\ UNCHANGED <<c_active, c_failed, c_in, c_req, c_fields, c_reads, c_swept>>
    /\ ConnDone("cleanup", TRUE)

\* http_request_free
ConnFreeRequest ==
    /\ ~fatal /\ c_pc = "free_request"
    /\ ConnReg(http_request_free(Reg, c_fields))
    /\ c_fields' = NoFields
    /\ UNCHANGED <<c_active, c_failed, c_in, c_req, c_reads, c_swept>>
    /\ ConnDone("free_request", TRUE)

\* http_response_free
ConnFreeResponse ==
    /\ ~fatal /\ c_pc = "free_response"
    /\ ConnReg(http_response_free(Reg))
    /\ UNCHANGED <<c_active, c_failed, c_in, c_req, c_fields, c_reads, c_swept>>
    /\ ConnDone("free_response", TRUE)

\* pfree_tag(tag) at the end of a cycle
ConnPFreeTag ==
    /\ ~fatal /\ c_pc = "pfree_tag"
    /\ c_swept' = Len(TagEntry(Reg, ConnTag).ptrs)
    /\ ConnReg(pfree_tag(Reg, ConnTag, AllOk))
    /\ UNCHANGED <<c_active, c_failed, c_in, c_req, c_fields, c_reads>>
    /\ ConnDone("pfree_tag", TRUE)

\* close(client_fd) after the loop
ConnClose ==
    /\ ~fatal /\ c_pc = "close"
    /\ ConnRegSame
    /\ UNCHANGED <<c_active, c_failed, c_in, c_req, c_fields, c_reads, c_swept>>
    /\ ConnDone("close", TRUE)

NextServer ==
    \/ ConnRecv \/ ConnParse \/ ConnNewResponse \/ ConnPreRoute \/ ConnRoute
    \/ ConnPostRoute \/ ConnSend \/ ConnKeepAlive \/ ConnCleanup
    \/ ConnFreeRequest \/ ConnFreeResponse \/ ConnPFreeTag \/ ConnClose
SpecServer == Init /\ [][NextServer]_vars

\* the main loop accepts the next client once the descriptor is closed:
\* accept returns the lowest descriptor that is free, client_fd again, and
\* a new handle_client_request starts with tag = TAG(client_fd)
ConnAccept ==
    /\ ~fatal /\ c_pc = "closed"
    /\ c_conns < MaxConns
    /\ c_conns' = c_conns + 1
    /\ c_pc' = "recv"
    /\ c_active' = TRUE
    /\ c_failed' = "no"
    /\ c_in' = NoInput
    /\ c_req' = NewRequest
    /\ c_fields' = NoFields
    /\ c_reads' = 0
    /\ c_hist' = <<>>
    /\ c_swept' = 0
    /\ ConnRegSame
    /\ UNCHANGED <<faults, last, threadVars, routerVars, layerVars,
                   parserVars, senderVars, hdrVars, arrVars, pipeVars, re_loc,
                   moreVars>>

NextAccept == NextServer \/ ConnAccept
SpecAccept == Init /\ [][NextAccept]_vars

(* ------------------------------------------------------------------ *)
(* One array shared by the threads: every call takes the lock, works   *)
(* on data, size and capacity, and releases the lock                   *)
(* ------------------------------------------------------------------ *)
OldGroups ==
    UNCHANGED <<faults, last, threadVars, routerVars, layerVars, parserVars,
                senderVars, connVars, hdrVars, arrVars, pipeVars, re_loc,
                c_conns>>
SeqOthers == OldGroups /\ UNCHANGED <<tearVars, bltVars, wrkVars>>

\* what malloc and realloc can return to the array and its callers
SeqMallocResults == (SeqAddrs \ heap) \cup {NULL}
SeqReallocResults(ptr) ==
    SeqMallocResults \cup (IF ptr = NULL THEN {} ELSE {ptr})

\* the list after a call that returned ret
SeqRef(l, c, ret) ==
    IF ~ret THEN l
    ELSE CASE c.op = "push" -> RefPush(l, c.v).l
           [] c.op = "insert" -> RefInsert(l, c.arg, c.v).l
           [] c.op = "pop" -> RefPop(l).l
           [] c.op = "remove" -> RefRemove(l, c.arg).l
           [] c.op = "set" -> RefSet(l, c.arg, c.v).l
           [] c.op \in {"clear", "destroy"} -> RefClear(l).l
           [] OTHER -> l

SeqGoto(t, label) == s_pc' = [s_pc EXCEPT ![t] = label]
SeqReturn(t, res) ==
    /\ s_arr' = res.arr
    /\ s_ref' = SeqRef(s_ref, s_call[t], res.ret)
    /\ s_call' = [s_call EXCEPT ![t].ret = res.ret, ![t].out = res.out]
    /\ SeqGoto(t, "unlock")

\* Array_init or Array_init_size by the thread that sets the server up
SeqInitCall ==
    /\ ~fatal /\ s_state = "raw"
    /\ s_state' = "ready"
    /\ \E size \in SeqInitSizes, addr \in SeqMallocResults :
          LET res == pmalloc(Reg, size, SeqTag, addr, AllOk)
          IN IF size = 0
             THEN /\ addr = NULL
                  /\ ConnRegSame
                  /\ UNCHANGED <<s_arr, s_data>>
             ELSE /\ ConnReg(res)
                  /\ s_data' = res.ret
                  /\ s_arr' = Array_init_size(size, res.ret # NULL)
    /\ UNCHANGED <<s_bufs, s_mutex, s_pc, s_call, s_calls, s_ref>>
    /\ SeqOthers

\* a thread makes a call; for push, insert and set it has allocated the
\* buffer the new element owns, under the array's tag
SeqStart(t) ==
    /\ ~fatal /\ s_state = "ready" /\ s_pc[t] = "idle"
    /\ s_calls < MaxSeqCalls
    /\ s_calls' = s_calls + 1
    /\ \E op \in SeqOps :
       \E arg \in SeqArgs(op) :
          IF op \in {"push", "insert", "set"}
          THEN \E addr \in SeqAddrs \ heap :
                  /\ ConnReg(pmalloc(Reg, 1, SeqTag, addr, AllOk))
                  /\ s_bufs' = s_bufs \cup {addr}
                  /\ s_call' = [s_call EXCEPT ![t] =
                        [NoSeqCall EXCEPT !.op = op, !.arg = arg, !.v = addr,
                                          !.overlap = s_mutex # NoHolder]]
          ELSE /\ ConnRegSame
               /\ UNCHANGED s_bufs
               /\ s_call' = [s_call EXCEPT ![t] =
                     [NoSeqCall EXCEPT !.op = op, !.arg = arg,
                                       !.overlap = s_mutex # NoHolder]]
    /\ SeqGoto(t, "lock")
    /\ UNCHANGED <<s_state, s_arr, s_data, s_mutex, s_ref>>
    /\ SeqOthers

\* ARR_MUTEX_LOCK_WRITE / ARR_MUTEX_LOCK_READ
SeqLock(t) ==
    /\ ~fatal /\ s_pc[t] = "lock"
    /\ ARR_MUTEX_LOCK_WRITE(s_mutex)
    /\ s_mutex' = t
    /\ SeqGoto(t, "body")
    /\ ConnRegSame
    /\ UNCHANGED <<s_state, s_arr, s_data, s_bufs, s_call, s_calls, s_ref>>
    /\ SeqOthers

\* prealloc(a->data, newcap * sizeof(TYPE), a->tag) of push, insert and
\* grow: res is what prealloc did; the call fails when it returned NULL
SeqReserved(t, res, newcap, then(_)) ==
    /\ ConnReg(res)
    /\ IF res.ret = NULL
       THEN /\ s_call' = [s_call EXCEPT ![t].ret = FALSE, ![t].oom = TRUE]
            /\ SeqGoto(t, "unlock")
            /\ UNCHANGED <<s_arr, s_data, s_ref>>
       ELSE /\ s_data' = res.ret
            /\ then([s_arr EXCEPT !.capacity = newcap])

\* push up to the store: grow when size == capacity
SeqPushGrow(t) ==
    /\ ~fatal /\ s_pc[t] = "body" /\ s_call[t].op = "push"
    /\ IF s_arr.size = s_arr.capacity
       THEN \E new_ptr \in SeqReallocResults(s_data) :
               SeqReserved(t,
                   prealloc(Reg, s_data, Array_newcap(s_arr), SeqTag, new_ptr,
                            AllOk),
                   Array_newcap(s_arr),
                   LAMBDA a : /\ s_arr' = a
                              /\ SeqGoto(t, "index")
                              /\ UNCHANGED <<s_call, s_ref>>)
       ELSE /\ SeqGoto(t, "index")
            /\ ConnRegSame
            /\ UNCHANGED <<s_arr, s_data, s_call, s_ref>>
    /\ UNCHANGED <<s_state, s_bufs, s_mutex, s_calls>>
    /\ SeqOthers

\* push, a->data[a->size++] = v: the index is read
SeqPushIndex(t) ==
    /\ ~fatal /\ s_pc[t] = "index"
    /\ s_call' = [s_call EXCEPT ![t].i = s_arr.size]
    /\ SeqGoto(t, "store")
    /\ ConnRegSame
    /\ UNCHANGED <<s_state, s_arr, s_data, s_bufs, s_mutex, s_calls, s_ref>>
    /\ SeqOthers

\* push, a->data[a->size++] = v: the element and the size are written
SeqPushStore(t) ==
    /\ ~fatal /\ s_pc[t] = "store"
    /\ SeqReturn(t, [arr |-> Array_store(s_arr, s_call[t].i, s_call[t].v),
                     ret |-> TRUE, out |-> 0])
    /\ ConnRegSame
    /\ UNCHANGED <<s_state, s_data, s_bufs, s_mutex, s_calls>>
    /\ SeqOthers

\* insert: the index test, the growth, the shift and the store
SeqInsert(t) ==
    /\ ~fatal /\ s_pc[t] = "body" /\ s_call[t].op = "insert"
    /\ IF s_call[t].arg <= s_arr.size /\ s_arr.size = s_arr.capacity
       THEN \E new_ptr \in SeqReallocResults(s_data) :
               SeqReserved(t,
                   prealloc(Reg, s_data, Array_newcap(s_arr), SeqTag, new_ptr,
                            AllOk),
                   Array_newcap(s_arr),
                   LAMBDA a : SeqReturn(t, Array_insert(a, s_call[t].arg,
                                                        s_call[t].v)))
       ELSE /\ SeqReturn(t, Array_insert(s_arr, s_call[t].arg, s_call[t].v))
            /\ ConnRegSame
            /\ UNCHANGED s_data
    /\ UNCHANGED <<s_state, s_bufs, s_mutex, s_calls>>
    /\ SeqOthers

\* grow(newcap)
SeqGrow(t) ==
    /\ ~fatal /\ s_pc[t] = "body" /\ s_call[t].op = "grow"
    /\ IF s_call[t].arg > s_arr.capacity
       THEN \E new_ptr \in SeqReallocResults(s_data) :
               SeqReserved(t,
                   prealloc(Reg, s_data, s_call[t].arg, SeqTag, new_ptr, AllOk),
                   s_call[t].arg,
                   LAMBDA a : SeqReturn(t, Array_grow(s_arr, s_call[t].arg)))
       ELSE /\ SeqReturn(t, Array_grow(s_arr, s_call[t].arg))
            /\ ConnRegSame
            /\ UNCHANGED s_data
    /\ UNCHANGED <<s_state, s_bufs, s_mutex, s_calls>>
    /\ SeqOthers

\* pop, remove, set, get, size and clear work on data and size only
SeqPlain(t) ==
    /\ ~fatal /\ s_pc[t] = "body"
    /\ LET c == s_call[t]
       IN /\ c.op \in {"pop", "remove", "set", "get", "size", "clear"}
          /\ SeqReturn(t,
                CASE c.op = "pop" -> Array_pop(s_arr)
                  [] c.op = "remove" -> Array_remove(s_arr, c.arg)
                  [] c.op = "set" -> Array_set(s_arr, c.arg, c.v)
                  [] c.op = "get" -> Array_get(s_arr, c.arg)
                  [] c.op = "size" -> Array_size(s_arr)
                  [] OTHER -> Array_clear(s_arr))
    /\ ConnRegSame
    /\ UNCHANGED <<s_state, s_data, s_bufs, s_mutex, s_calls>>
    /\ SeqOthers

\* destroy
SeqDestroy(t) ==
    /\ ~fatal /\ s_pc[t] = "body" /\ s_call[t].op = "destroy"
    /\ ConnReg(Array_destroy_storage(Reg, s_data, SeqTag))
    /\ s_data' = NULL
    /\ SeqReturn(t, Array_destroy(s_arr))
    /\ UNCHANGED <<s_state, s_bufs, s_mutex, s_calls>>
    /\ SeqOthers

\* ARR_MUTEX_UNLOCK_WRITE / ARR_MUTEX_UNLOCK_READ and the return
SeqUnlock(t) ==
    /\ ~fatal /\ s_pc[t] = "unlock"
    /\ s_mutex' = NoHolder
    /\ SeqGoto(t, "idle")
    /\ ConnRegSame
    /\ UNCHANGED <<s_state, s_arr, s_data, s_bufs, s_call, s_calls, s_ref>>
    /\ SeqOthers

NextSeq ==
    \/ SeqInitCall
    \/ \E t \in Threads :
          \/ SeqStart(t) \/ SeqLock(t) \/ SeqPushGrow(t) \/ SeqPushIndex(t)
          \/ SeqPushStore(t) \/ SeqInsert(t) \/ SeqGrow(t) \/ SeqPlain(t)
          \/ SeqDestroy(t) \/ SeqUnlock(t)
SpecSeq == Init /\ [][NextSeq]_vars

(* ------------------------------------------------------------------ *)
(* A layer context is set up and torn down: layers_new, layers_add,    *)
(* then layers_free (as http_server_free calls it) or layers_clear     *)
(* ------------------------------------------------------------------ *)
TearOthers == OldGroups /\ UNCHANGED <<seqVars, bltVars, wrkVars>>

\* pfree(ptr) is noted with what the registry held for ptr
Logged(log, r, ptr) ==
    IF ptr = NULL THEN log
    ELSE Append(log, [ptr |-> ptr, known |-> HasInfo(r, ptr)])

\* layers_new: the LayerCtx block; LayerArray_init allocates nothing
TearNew ==
    /\ ~fatal /\ l_pc = "new"
    /\ \E addr \in SeqAddrs \ heap :
          /\ ConnReg(pmalloc(Reg, 1, ServerTag, addr, AllOk))
          /\ l_ctx' = addr
    /\ l_pc' = "setup"
    /\ UNCHANGED <<l_op, l_data, l_names, l_size, l_i, l_stale, l_log>>
    /\ TearOthers

\* layers_add: layer_new allocates the name, LayerArray_push stores the
\* Layer by value; the first push allocates the storage (8 elements)
TearAdd ==
    /\ ~fatal /\ l_pc = "setup"
    /\ l_size < MaxTearLayers
    /\ \E name \in SeqAddrs \ heap :
          LET r1 == pmalloc(Reg, 1, ServerTag, name, AllOk).r
          IN /\ l_names' = Append(l_names, name)
             /\ l_size' = l_size + 1
             /\ IF l_data = NULL
                THEN \E addr \in SeqAddrs \ r1.heap :
                        LET res == prealloc(r1, l_data,
                                            Array_newcap(Array_new),
                                            ServerTag, addr, AllOk)
                        IN ConnReg(res) /\ l_data' = res.ret
                ELSE /\ ConnReg([r |-> r1, fatal |-> FALSE])
                     /\ UNCHANGED l_data
    /\ UNCHANGED <<l_pc, l_op, l_ctx, l_i, l_stale, l_log>>
    /\ TearOthers

\* layers_free or layers_clear is called
TearStart ==
    /\ ~fatal /\ l_pc = "setup"
    /\ \E op \in {"layers_free", "layers_clear"} : l_op' = op
    /\ l_pc' = "loop"
    /\ l_i' = 0
    /\ ConnRegSame
    /\ UNCHANGED <<l_ctx, l_data, l_names, l_size, l_stale, l_log>>
    /\ TearOthers

\* one turn of the loop: layer = LayerArray_get_ptr(&ctx->layers, i),
\* layer_free(layer).  When the storage has been released, what is read
\* as layer->name is the old value, zero, or a wild pointer that
\* string_free cannot survive.
TearLayer ==
    /\ ~fatal /\ l_pc = "loop"
    /\ l_i < l_size
    /\ LET layer == Array_get_ptr(l_data, l_i)
           live == l_data \in heap
       IN \E read \in (IF live THEN {"intact"} ELSE StaleReads) :
             LET name == IF read = "zero" THEN NULL ELSE l_names[l_i + 1]
                 res == layer_free(Reg, name, layer)
             IN /\ l_stale' = (l_stale \/ ~live)
                /\ IF read = "wild"
                   THEN /\ fatal' = TRUE
                        /\ UNCHANGED <<g_alloc_table, g_tag_table,
                                       g_alloc_count, g_tag_count, heap,
                                       double_free, l_log>>
                   ELSE /\ ConnReg(res)
                        /\ l_log' =
                              IF HasInfo(Reg, name) \/ name = NULL
                              THEN Logged(Logged(l_log, Reg, name), Reg, layer)
                              ELSE Logged(l_log, Reg, name)
    /\ l_i' = l_i + 1
    /\ UNCHANGED <<l_pc, l_op, l_ctx, l_data, l_names, l_size>>
    /\ TearOthers

\* after the loop: LayerArray_destroy and pfree(ctx) in layers_free,
\* LayerArray_clear in layers_clear
TearEnd ==
    /\ ~fatal /\ l_pc = "loop"
    /\ l_i >= l_size
    /\ l_pc' = "done"
    /\ l_size' = 0
    /\ IF l_op = "layers_free"
       THEN LET r1 == Array_destroy_storage(Reg, l_data, ServerTag)
            IN /\ ConnReg(IF r1.fatal THEN r1 ELSE pfree(r1.r, l_ctx))
               /\ l_data' = NULL
               /\ l_log' = IF r1.fatal THEN Logged(l_log, Reg, l_data)
                           ELSE Logged(Logged(l_log, Reg, l_data), r1.r, l_ctx)
       ELSE /\ ConnRegSame
            /\ UNCHANGED <<l_data, l_log>>
    /\ UNCHANGED <<l_op, l_ctx, l_names, l_i, l_stale>>
    /\ TearOthers

NextTeardown == TearNew \/ TearAdd \/ TearStart \/ TearLayer \/ TearEnd
SpecTeardown == Init /\ [][NextTeardown]_vars

(* ------------------------------------------------------------------ *)
(* A response goes from the handler through the built-in POST_ROUTE    *)
(* layers, in the order http_server_add_builtins adds them, to         *)
(* http_response_send                                                  *)
(* ------------------------------------------------------------------ *)
BuiltinOthers ==
    OldGroups /\ UNCHANGED <<regVars, seqVars, tearVars, wrkVars>>

\* router_route: the handler of the request has filled the response
BuiltinRoute ==
    /\ b_pc = "route"
    /\ \E accept \in AcceptInputs, close \in BOOLEAN, body \in Bodies,
          headers \in {<<>>, <<H_TYPE>>} :
          /\ b_accept' = accept
          /\ b_close' = close
          /\ b_resp' = [NoResponse EXCEPT !.status = S_200, !.body = body,
                                          !.headers = headers]
    /\ b_pc' = "logging-postroute"
    /\ UNCHANGED b_wire
    /\ BuiltinOthers

\* logging_layer_postroute_basic / _verbose: prints
BuiltinLogging ==
    /\ b_pc = "logging-postroute"
    /\ b_pc' = "content-encoding"
    /\ UNCHANGED <<b_accept, b_close, b_resp, b_wire>>
    /\ BuiltinOthers

BuiltinEncoding ==
    /\ b_pc = "content-encoding"
    /\ \E z \in GzipResults :
          b_resp' = content_encoding_layer(b_accept, b_resp, z).resp
    /\ b_pc' = "content-length"
    /\ UNCHANGED <<b_accept, b_close, b_wire>>
    /\ BuiltinOthers

BuiltinLength ==
    /\ b_pc = "content-length"
    /\ b_resp' = content_length_layer(b_resp).resp
    /\ b_pc' = "connection-close"
    /\ UNCHANGED <<b_accept, b_close, b_wire>>
    /\ BuiltinOthers

BuiltinClose ==
    /\ b_pc = "connection-close"
    /\ b_resp' = connection_close_layer(b_close, b_resp).resp
    /\ b_pc' = "request-memory-usage"
    /\ UNCHANGED <<b_accept, b_close, b_wire>>
    /\ BuiltinOthers

\* request_memory_usage_layer: prints
BuiltinMemory ==
    /\ b_pc = "request-memory-usage"
    /\ b_pc' = "send"
    /\ UNCHANGED <<b_accept, b_close, b_resp, b_wire>>
    /\ BuiltinOthers

BuiltinSend ==
    /\ b_pc = "send"
    /\ b_wire' = http_response_send(b_resp, TRUE).wire
    /\ b_pc' = "sent"
    /\ UNCHANGED <<b_accept, b_close, b_resp>>
    /\ BuiltinOthers

NextBuiltins ==
    \/ BuiltinRoute \/ BuiltinLogging \/ BuiltinEncoding \/ BuiltinLength
    \/ BuiltinClose \/ BuiltinMemory \/ BuiltinSend
SpecBuiltins == Init /\ [][NextBuiltins]_vars

(* ------------------------------------------------------------------ *)
(* The accept loop of http_server_start and the threads it starts,     *)
(* each running handle_client_request; the registry calls for the      *)
(* InternalRequest run statement by statement, as in SpecThreads       *)
(* ------------------------------------------------------------------ *)
WrkOthers == OldGroups /\ UNCHANGED <<seqVars, tearVars, bltVars>>
WrkRegSame ==
    UNCHANGED <<g_alloc_table, g_tag_table, g_alloc_count, g_tag_count, heap,
                double_free, fatal>>
\* accept returns the lowest descriptor that is not open
LowestFd(open) ==
    CHOOSE fd \in client_fd..(client_fd + MaxWorkers) :
        fd \notin open /\ \A g \in client_fd..(fd - 1) : g \in open
SetWorker(i, w) == k_workers' = [k_workers EXCEPT ![i] = w]
Workers == DOMAIN k_workers

\* accept: a client connects, or accept fails and http_server_start returns
AccAccept ==
    /\ ~fatal /\ k_pc = "accept"
    /\ k_accepted < MaxWorkers
    /\ \/ /\ k_loc' = [NoAccLocals EXCEPT !.fd = LowestFd(k_fds)]
          /\ k_fds' = k_fds \cup {LowestFd(k_fds)}
          /\ k_accepted' = k_accepted + 1
          /\ k_pc' = "ctx_malloc"
       \/ /\ k_pc' = "returned"
          /\ UNCHANGED <<k_loc, k_fds, k_accepted>>
    /\ WrkRegSame
    /\ UNCHANGED k_workers
    /\ WrkOthers

\* pmalloc(sizeof(InternalRequest), server->tag): malloc, the record filled
\* in, info->next = g_alloc_table[index]; on NULL close(client_fd), return
AccCtxMalloc ==
    /\ ~fatal /\ k_pc = "ctx_malloc"
    /\ \/ \E addr \in Addrs \ heap :
             /\ heap' = heap \cup {addr}
             /\ k_loc' = [k_loc EXCEPT
                   !.ptr = addr,
                   !.next = g_alloc_table[hash_pointer(addr,
                                             ALLOC_TABLE_INITIAL_SIZE)]]
             /\ k_pc' = "ctx_link"
             /\ UNCHANGED k_fds
       \/ /\ k_fds' = k_fds \ {k_loc.fd}
          /\ k_pc' = "returned"
          /\ UNCHANGED <<heap, k_loc>>
    /\ UNCHANGED <<g_alloc_table, g_tag_table, g_alloc_count, g_tag_count,
                   double_free, fatal, k_accepted, k_workers>>
    /\ WrkOthers

\* register_allocation: g_alloc_table[index] = info; g_alloc_count++
AccCtxLink ==
    /\ ~fatal /\ k_pc = "ctx_link"
    /\ g_alloc_table' =
          [g_alloc_table EXCEPT
             ![hash_pointer(k_loc.ptr, ALLOC_TABLE_INITIAL_SIZE)] =
                <<[ptr |-> k_loc.ptr, size |-> 1, tag |-> ServerTag]>>
                   \o k_loc.next]
    /\ g_alloc_count' = g_alloc_count + 1
    /\ k_pc' = "ctx_tag"
    /\ UNCHANGED <<g_tag_table, g_tag_count, heap, double_free, fatal, k_loc,
                   k_fds, k_accepted, k_workers>>
    /\ WrkOthers

\* register_allocation: the block joins the group of server->tag; then
\* request->client_fd = client_fd, request->server = server
AccCtxTag ==
    /\ ~fatal /\ k_pc = "ctx_tag"
    /\ LET r1 == IF find_tag_entry(Reg, ServerTag) = 0
                 THEN create_tag_entry(Reg, ServerTag, TRUE) ELSE Reg
           r2 == add_ptr_to_tag(r1, ServerTag, k_loc.ptr, TRUE)
       IN /\ g_tag_table' = r2.tags
          /\ g_tag_count' = r2.tcount
    /\ k_pc' = "create"
    /\ UNCHANGED <<g_alloc_table, g_alloc_count, heap, double_free, fatal,
                   k_loc, k_fds, k_accepted, k_workers>>
    /\ WrkOthers

\* pthread_create: the thread starts, or it fails: close(client_fd), return
AccCreate ==
    /\ ~fatal /\ k_pc = "create"
    /\ \/ /\ k_workers' = pthread_create(k_workers, k_accepted, k_loc.fd,
                                         k_loc.ptr)
          /\ k_pc' = "detach"
          /\ UNCHANGED k_fds
       \/ /\ k_fds' = k_fds \ {k_loc.fd}
          /\ k_pc' = "returned"
          /\ UNCHANGED k_workers
    /\ WrkRegSame
    /\ UNCHANGED <<k_loc, k_accepted>>
    /\ WrkOthers

\* pthread_detach of the joinable thread just created (it returns 0 for
\* such a thread), then the loop is back at accept
AccDetach ==
    /\ ~fatal /\ k_pc = "detach"
    /\ k_pc' = "accept"
    /\ k_loc' = NoAccLocals
    /\ WrkRegSame
    /\ UNCHANGED <<k_fds, k_accepted, k_workers>>
    /\ WrkOthers

\* what a worker's step leaves alone in the accept loop
WrkAccSame == UNCHANGED <<k_pc, k_loc, k_accepted>>

\* recv: a request arrives, or recv returns 0 or an error (break)
WRecv(i) ==
    /\ ~fatal /\ k_workers[i].pc = "recv"
    /\ \/ /\ k_workers[i].reads < MaxWorkerReads
          /\ SetWorker(i, [k_workers[i] EXCEPT !.pc = "request_new",
                                                 !.reads = @ + 1])
       \/ SetWorker(i, [k_workers[i] EXCEPT !.pc = "close"])
    /\ WrkRegSame /\ WrkAccSame /\ UNCHANGED k_fds
    /\ WrkOthers

\* http_request_new: the request, or NULL (break)
WRequestNew(i) ==
    /\ ~fatal /\ k_workers[i].pc = "request_new"
    /\ \E ok \in BOOLEAN :
          SetWorker(i, [k_workers[i] EXCEPT
                           !.pc = IF ok THEN "parse" ELSE "close"])
    /\ WrkRegSame /\ WrkAccSame /\ UNCHANGED k_fds
    /\ WrkOthers

\* http_request_parse of what was received; when it fails: CLEANUP
\* layers, http_request_free, break
WParse(i) ==
    /\ ~fatal /\ k_workers[i].pc = "parse"
    /\ \E in \in ConnInputs :
          LET res == http_request_parse(NewRequest, RawText(in))
          IN SetWorker(i, [k_workers[i] EXCEPT
                              !.pc = IF res.ret THEN "send" ELSE "close",
                              !.keep = keep_alive(res.req)])
    /\ WrkRegSame /\ WrkAccSame /\ UNCHANGED k_fds
    /\ WrkOthers

\* http_response_new, PRE_ROUTE, router_route, POST_ROUTE,
\* http_response_send; when the send fails: CLEANUP, the frees, break
WSend(i) ==
    /\ ~fatal /\ k_workers[i].pc = "send"
    /\ \E sendOk \in BOOLEAN :
          SetWorker(i, [k_workers[i] EXCEPT
                           !.pc = IF sendOk THEN "keepalive" ELSE "close"])
    /\ WrkRegSame /\ WrkAccSame /\ UNCHANGED k_fds
    /\ WrkOthers

\* the Connection: close test, CLEANUP, the frees, pfree_tag(tag), and the
\* loop condition
WKeepAlive(i) ==
    /\ ~fatal /\ k_workers[i].pc = "keepalive"
    /\ SetWorker(i, [k_workers[i] EXCEPT
                        !.active = k_workers[i].keep,
                        !.pc = IF k_workers[i].keep THEN "recv" ELSE "close"])
    /\ WrkRegSame /\ WrkAccSame /\ UNCHANGED k_fds
    /\ WrkOthers

\* close(client_fd) after the loop
WClose(i) ==
    /\ ~fatal /\ k_workers[i].pc = "close"
    /\ k_fds' = k_fds \ {k_workers[i].fd}
    /\ SetWorker(i, [k_workers[i] EXCEPT !.pc = "free_start",
                                           !.closes = @ + 1])
    /\ WrkRegSame /\ WrkAccSame
    /\ WrkOthers

\* pfree(request), unregister_allocation: walk the chain to the record,
\* keeping the record before it; assert(0) when there is none
WFreeStart(i) ==
    /\ k_workers[i].pc = "free_start" /\ ~fatal
    /\ LET ptr == k_workers[i].ctx
           chain == g_alloc_table[hash_pointer(ptr, ALLOC_TABLE_INITIAL_SIZE)]
           j == FirstIndex(chain, LAMBDA e : e.ptr = ptr)
       IN IF j = 0
          THEN /\ fatal' = TRUE
               /\ SetWorker(i, [k_workers[i] EXCEPT !.pc = "aborted"])
          ELSE /\ fatal' = FALSE
               /\ SetWorker(i, [k_workers[i] EXCEPT
                     !.pc = "unlink",
                     !.prev = IF j = 1 THEN NULL ELSE chain[j - 1].ptr])
    /\ UNCHANGED <<g_alloc_table, g_tag_table, g_alloc_count, g_tag_count,
                   heap, double_free, k_fds>>
    /\ WrkAccSame
    /\ WrkOthers

\* unregister_allocation: g_alloc_table[index] = info->next when the
\* record was first in its chain, else prev->next = info->next
WUnlink(i) ==
    /\ ~fatal /\ k_workers[i].pc = "unlink"
    /\ LET ptr == k_workers[i].ctx
           h == hash_pointer(ptr, ALLOC_TABLE_INITIAL_SIZE)
           chain == g_alloc_table[h]
           a == FirstIndex(chain, LAMBDA e : e.ptr = ptr)
           b == FirstIndex(chain, LAMBDA e : e.ptr = k_workers[i].prev)
           info_next == SubSeq(chain, a + 1, Len(chain))
       IN g_alloc_table' =
             [g_alloc_table EXCEPT ![h] =
                 IF k_workers[i].prev = NULL THEN info_next
                 ELSE IF b # 0 THEN SubSeq(chain, 1, b) \o info_next
                 ELSE chain]
    /\ g_alloc_count' = g_alloc_count - 1
    /\ SetWorker(i, [k_workers[i] EXCEPT !.pc = "untag"])
    /\ UNCHANGED <<g_tag_table, g_tag_count, heap, double_free, fatal, k_fds>>
    /\ WrkAccSame
    /\ WrkOthers

\* unregister_allocation: the block leaves its group; free; return NULL
WUntag(i) ==
    /\ ~fatal /\ k_workers[i].pc = "untag"
    /\ LET r1 == Free(remove_ptr_from_tag(Reg, ServerTag, k_workers[i].ctx),
                      k_workers[i].ctx)
       IN /\ g_tag_table' = r1.tags
          /\ heap' = r1.heap
          /\ double_free' = r1.dfree
    /\ SetWorker(i, [k_workers[i] EXCEPT !.pc = "done", !.releases = @ + 1])
    /\ UNCHANGED <<g_alloc_table, g_alloc_count, g_tag_count, fatal, k_fds>>
    /\ WrkAccSame
    /\ WrkOthers

Acceptor ==
    \/ AccAccept \/ AccCtxMalloc \/ AccCtxLink \/ AccCtxTag \/ AccCreate
    \/ AccDetach
NextWorkers ==
    \/ Acceptor
    \/ \E i \in Workers :
          \/ WRecv(i) \/ WRequestNew(i) \/ WParse(i) \/ WSend(i)
          \/ WKeepAlive(i) \/ WClose(i) \/ WFreeStart(i) \/ WUnlink(i)
          \/ WUntag(i)
SpecWorkers == Init /\ [][NextWorkers]_vars

(* ------------------------------------------------------------------ *)
(* Properties of the allocation registry                              *)
(* ------------------------------------------------------------------ *)

Quiescent == \A t \in Threads : pc[t] = "idle"
OwnedBlocks == UNION {owned[t] : t \in Threads}

\* C5: the registry calls of concurrent threads take effect as if one at a
\* time: under every interleaving, whenever no registry call is in progress,
\* no record or membership is lost or duplicated (every block a thread
\* holds has exactly one record, every other address none, g_alloc_count is
\* the number of records) and the record/group invariant holds.
C5_MutationsSerialized ==
    (Quiescent /\ ~fatal) =>
        /\ \A a \in Addrs :
              RecordCount(Reg, a) = (IF a \in OwnedBlocks THEN 1 ELSE 0)
        /\ g_alloc_count = Cardinality(OwnedBlocks)
        /\ \A a \in Addrs, t \in Tags :
              /\ MemberCount(Reg, t, a) <= 1
              /\ (MemberCount(Reg, t, a) = 1) <=>
                    (\E e \in Records(Reg) : e.ptr = a /\ e.tag = t)

\* the methods a mask holds: the verbs whose bit is set in it
MaskMembers(mask) ==
    {m \in MethodValues \ {HTTP_UNKNOWN} : (mask \div m) % 2 = 1}

\* a route matches a request: the method is a member of the mask and the
\* path is equal (exact routes) or a prefix of the target (prefix routes)
Matches(route, method, target) ==
    /\ method \in MaskMembers(route.methods)
    /\ IF route.exact_only THEN target = route.path
       ELSE /\ Len(route.path) <= Len(target)
            /\ SubSeq(target, 1, Len(route.path)) = route.path

MatchingRoutes == {i \in 1..Len(routes) :
                      Matches(routes[i], routed.method, routed.target)}

\* C6: router_route invokes the handler of the first matching route in
\* registration order and no other, and returns true; with no matching
\* route it invokes no handler, sets status 404 Not Found, returns false.
C6_FirstMatchOr404 ==
    routed.done =>
        IF MatchingRoutes = {}
        THEN /\ routed.called = <<>>
             /\ routed.status = HTTP_404
             /\ ~routed.ret
        ELSE /\ routed.called =
                   <<CHOOSE i \in MatchingRoutes :
                        \A j \in MatchingRoutes : i <= j>>
             /\ routed.ret

\* C7: for every route and every request method, GET .. HEAD and UNKNOWN,
\* the test router_route makes on the route succeeds iff the method is a
\* member of the mask and the path condition of the route holds.
C7_MatchPredicate ==
    routed.done =>
        \A i \in 1..Len(routes) :
            RouteAccepts(routes[i], routed.method, routed.target)
               <=> Matches(routes[i], routed.method, routed.target)

\* the layers of the applied stage, and the first of them that fails hard
StageLayers == {i \in 1..Len(layers) : layers[i].when = applied.stage}
HardFailures == {i \in StageLayers : ~layers[i].fn /\ ~layers[i].can_fail}
FirstHardFailure == CHOOSE i \in HardFailures : \A j \in HardFailures : i <= j

MethodOf(tok) ==
    IF tok = S_GET THEN HTTP_GET
    ELSE IF tok = S_POST THEN HTTP_POST
    ELSE IF tok = S_PUT THEN HTTP_PUT
    ELSE IF tok = S_DELETE THEN HTTP_DELETE
    ELSE IF tok = S_PATCH THEN HTTP_PATCH
    ELSE IF tok = S_OPTIONS THEN HTTP_OPTIONS
    ELSE IF tok = S_HEAD THEN HTTP_HEAD
    ELSE HTTP_UNKNOWN
VersionOf(tok) ==
    IF tok = S_HTTP11 THEN "HTTP_1_1"
    ELSE IF tok = S_HTTP20 THEN "HTTP_2_0"
    ELSE "HTTP_UNKNOWN_VERSION"

ExampleInput == [kind |-> "request", method |-> S_GET, target |-> T_ECHO, version |-> S_HTTP11,
                 hdrs |-> <<L_HOST>>, tail |-> "body"]

\* C9: the parsed method is the verb the method token names exactly, else
\* UNKNOWN; the target is the bytes between the first and second space; the
\* version is 1.1 for HTTP/1.1, 2.0 for HTTP/2.0, else unknown; and
\* "GET /echo/hi HTTP/1.1\r\nHost: x\r\n\r\nbody" gives GET, /echo/hi, 1.1,
\* the one header (Host, x) and body "body".
C9_RequestLine ==
    (parsed.done /\ input.kind = "request") =>
        /\ request.method = MethodOf(input.method)
        /\ request.target = input.target
        /\ request.version = VersionOf(input.version)
        /\ input = ExampleInput =>
              /\ request.headers = <<[key |-> <<"H", "o", "s", "t">>,
                                      value |-> <<"x">>]>>
              /\ request.body = S_BODY

WellFormed(line) ==
    \E i \in 1..Len(line) - 1 : line[i] = ":" /\ line[i + 1] = " "
SeparatorAt(line) ==
    CHOOSE i \in 1..Len(line) - 1 :
        /\ line[i] = ":" /\ line[i + 1] = " "
        /\ \A j \in 1..i - 1 : ~(line[j] = ":" /\ line[j + 1] = " ")
SplitHeader(line) ==
    [key |-> SubSeq(line, 1, SeparatorAt(line) - 1),
     value |-> SubSeq(line, SeparatorAt(line) + 2, Len(line))]

\* the header lines with a ": ", split, in input order
RECURSIVE HeadersOf(_)
HeadersOf(lines) ==
    IF lines = <<>> THEN <<>>
    ELSE IF WellFormed(Head(lines))
    THEN <<SplitHeader(Head(lines))>> \o HeadersOf(Tail(lines))
    ELSE HeadersOf(Tail(lines))

\* C10: whatever the method token, only the first line is read as the
\* request line; later lines up to the empty line are only header lines:
\* the parsed headers are the lines with a ": ", split at its first
\* occurrence, in input order, and the other lines change nothing.
C10_OneRequestLine ==
    (parsed.done /\ input.kind = "request") =>
        /\ request.headers = HeadersOf(input.hdrs)
        /\ <<request.method, request.target, request.version>> =
              <<MethodOf(input.method), input.target,
                VersionOf(input.version)>>

\* C11: the parsed body is exactly the bytes of the input after the first
\* empty line; it is empty when no empty line ends the headers or when
\* nothing follows the empty line.
C11_BodyAfterEmptyLine ==
    (parsed.done /\ input.kind \in {"request", "nospace"}) =>
        request.body = (IF input.tail = "body" THEN S_BODY ELSE <<>>)

\* C12: http_request_parse returns false for empty input and for input
\* whose first line is not a CRLF-terminated "method target version" line,
\* and then leaves the request as it was before the call.
C12_ParseFailure ==
    (parsed.done /\ input.kind # "request") =>
        /\ ~parsed.ret
        /\ request = NewRequest

RECURSIVE HeaderBytes(_)
HeaderBytes(headers) ==
    IF headers = <<>> THEN <<>>
    ELSE Head(headers).key \o COLON_SP \o Head(headers).value \o CRLF
         \o HeaderBytes(Tail(headers))

\* C13: a successful http_response_send puts on the socket the status line
\* and CRLF, every header in order as key, ": ", value, CRLF, an empty
\* line, then the body bytes (encoding NONE) or the compressed body bytes
\* (encoding GZIP), and leaves the response as it was.
C13_SerializedResponse ==
    (sent.done /\ sent.ret) =>
        /\ sent.wire =
              response.status \o CRLF \o HeaderBytes(response.headers) \o CRLF
              \o (IF response.encoding = "COMPRESSION_NONE"
                  THEN response.body ELSE response.raw_body)
        /\ response = sent.before

(* ------------------------------------------------------------------ *)
(* Properties of the connection coordinator                           *)
(* ------------------------------------------------------------------ *)
\* the request the client sent has a Connection header with value close
CarriesClose(in) == \E k \in 1..Len(in.hdrs) : in.hdrs[k] = L_CLOSE

\* the statement that ran last
LastEvent == IF c_hist = <<>> THEN [ev |-> "none", ok |-> TRUE, k |-> 0]
             ELSE c_hist[Len(c_hist)]

\* C14: after a response was sent successfully the coordinator closes the
\* connection if and only if the request carries a Connection header whose
\* value is exactly close; otherwise it goes on to read the next request.
C14_CloseIffConnectionClose ==
    (LastEvent.ev = "pfree_tag") =>
        /\ (c_pc = "close") <=> CarriesClose(c_in)
        /\ (c_pc = "recv") <=> ~CarriesClose(c_in)

IsPrefix(s, t) == Len(s) <= Len(t) /\ s = SubSeq(t, 1, Len(s))

\* the statements of request cycle k after its read, in the order they ran
CycleEvents(k) ==
    SelectSeq(c_hist, LAMBDA e : e.k = k /\ e.ev \notin {"recv", "close"})
CycleSteps(k) == [i \in 1..Len(CycleEvents(k)) |-> CycleEvents(k)[i].ev]
SendFailed(k) ==
    \E i \in 1..Len(c_hist) :
        c_hist[i].k = k /\ c_hist[i].ev = "send" /\ ~c_hist[i].ok
CycleOver(k) ==
    k < c_reads \/ (k = c_reads /\ c_pc \in {"recv", "close", "closed"})

\* the statements of a cycle whose send succeeds
FullCycle ==
    <<"parse", "new_response", "pre_route", "route", "post_route", "send",
      "keepalive", "cleanup", "free_request", "free_response", "pfree_tag">>
UpToSend == SubSeq(FullCycle, 1, 6)

\* C15: in every cycle whose request parses, PRE_ROUTE layers, route,
\* POST_ROUTE layers and send run in this order, each exactly once; when
\* the send succeeds they are followed, in this order and each once, by the
\* CLEANUP layers, the release of the request and of the response, and
\* pfree_tag(tag).
C15_CycleOrder ==
    \A k \in 1..c_reads :
        LET steps == CycleSteps(k)
        IN /\ IsPrefix(SubSeq(steps, 1, IF Len(steps) < 6 THEN Len(steps) ELSE 6),
                       UpToSend)
           /\ \A i \in 7..Len(steps) :
                 steps[i] \notin {"pre_route", "route", "post_route", "send"}
           /\ ~SendFailed(k) => IsPrefix(steps, FullCycle)
           /\ (CycleOver(k) /\ ~SendFailed(k)) => steps = FullCycle

\* a cycle has run from the read to pfree_tag
C15_Witness ==
    /\ LastEvent.ev = "pfree_tag"
    /\ CycleSteps(c_reads) = FullCycle

\* the records of the allocation table that carry the connection's tag
ConnRecords == {e \in Records(Reg) : e.tag = ConnTag}

\* no allocation is registered under the connection's tag
GroupEmpty ==
    /\ ConnRecords = {}
    /\ TagEntry(Reg, ConnTag).ptrs = <<>>
    /\ ptag_size(Reg, ConnTag) = 0

C17_GroupEmptyAtClose ==
    (c_pc = "close") => GroupEmpty

\* where the statement ev of cycle k ran with success (0: it did not)
PosOf(ev, k) ==
    FirstIndex(c_hist, LAMBDA e : e = [ev |-> ev, ok |-> TRUE, k |-> k])

\* C19: request k+1 is read only after the response to request k was sent
\* and the cleanup and pfree_tag of that cycle have run, and the responses
\* go out in the order the requests were read.
C19_OneCycleInFlight ==
    /\ \A i \in 1..Len(c_hist) :
          (c_hist[i].ev = "recv" /\ c_hist[i].ok /\ c_hist[i].k > 1) =>
             LET a == PosOf("send", c_hist[i].k - 1)
                 b == PosOf("cleanup", c_hist[i].k - 1)
                 c == PosOf("pfree_tag", c_hist[i].k - 1)
             IN 0 < a /\ a < b /\ b < c /\ c < i
    /\ \A i, j \in 1..Len(c_hist) :
          (i < j /\ c_hist[i].ev = "send" /\ c_hist[j].ev = "send") =>
             c_hist[i].k < c_hist[j].k

\* the second request of a connection has been answered
C19_Witness ==
    \E i \in 1..Len(c_hist) :
        c_hist[i] = [ev |-> "send", ok |-> TRUE, k |-> 2]

(* ------------------------------------------------------------------ *)
(* Connections served by concurrent threads                           *)
(* ------------------------------------------------------------------ *)
\* thread t has just run the statements of a pfree that unlink the record
\* of its block or take the block out of its group
ReleaseStep(t) ==
    \/ pc[t] = "unreg_unlink" /\ pc'[t] = "unreg_tag"
    \/ pc[t] = "unreg_tag" /\ pc'[t] = "idle"

\* C18: what one connection's thread releases on its way to closing its
\* socket never touches another connection: under every interleaving, a
\* releasing step of a thread leaves every record registered under a tag
\* other than the one of the block it releases in the registry, unaltered.
C18_OtherConnectionUntouched ==
    [][\A t \in Threads :
          ReleaseStep(t) =>
             \A e \in Records(Reg) : e.tag # loc[t].tag => e \in Records(Reg')]_vars

(* ------------------------------------------------------------------ *)
(* Size of a group                                                    *)
(* ------------------------------------------------------------------ *)
RECURSIVE SizeSum(_)
SizeSum(S) ==
    IF S = {} THEN 0
    ELSE LET e == CHOOSE x \in S : TRUE IN e.size + SizeSum(S \ {e})

\* the sum of the sizes of the live records whose tag is t
LiveSize(r, t) == SizeSum({e \in Records(r) : e.tag = t})

\* C20: for every tag value t, ptag_size(t) is the sum of the sizes of the
\* live records whose tag is t, sizes as last set by pmalloc, pcalloc or
\* prealloc, and 0 when t has no live record or was never used.
C20_GroupSize ==
    \A t \in Tags : ptag_size(Reg, t) = LiveSize(Reg, t)

(* ------------------------------------------------------------------ *)
(* Header lookup                                                      *)
(* ------------------------------------------------------------------ *)
\* the positions of the headers whose key is the name, byte for byte
KeyPositions(name) == {i \in 1..Len(h_headers) : h_headers[i].key = name}

\* C21: http_request_get_header and http_response_get_header return the
\* first header, in insertion order, whose key is byte-for-byte the name
\* asked for (also when later headers have the same key), and no header
\* when no key is equal to the name.
C21_FirstExactMatch ==
    h_found.done =>
        IF KeyPositions(h_found.name) = {} THEN h_found.idx = 0
        ELSE /\ h_found.idx \in KeyPositions(h_found.name)
             /\ \A j \in KeyPositions(h_found.name) : h_found.idx <= j

\* a lookup among headers of which two have the key asked for, and one a
\* key that differs only in case
C21_Witness ==
    /\ h_found.done /\ h_found.idx # 0
    /\ Cardinality(KeyPositions(h_found.name)) >= 2
    /\ h_found.name = K_A /\ KeyPositions(K_a) # {}

(* ------------------------------------------------------------------ *)
(* The array against a list                                           *)
(* ------------------------------------------------------------------ *)
\* what get(0), get(1), ... up to size - 1 read from the array
Contents(a) == [i \in 1..a.size |-> a.data[i - 1]]

Invocations(i, k) ==
    Cardinality({j \in 1..Len(p_invoked) :
                    p_invoked[j].layer = i /\ p_invoked[j].k = k})

\* cycle k was served to completion: it ended with pfree_tag
Completed(k) ==
    \E j \in 1..Len(p_hist) : p_hist[j].ev = "pfree_tag" /\ p_hist[j].k = k

\* an earlier layer of the same stage fails hard, which ends the stage
StoppedBefore(i) ==
    \E j \in 1..(i - 1) :
        /\ p_layers[j].when = p_layers[i].when
        /\ ~p_layers[j].fn /\ ~p_layers[j].can_fail

\* C23: a layer registered with layers_add at any of the six stages INIT,
\* PRE_ROUTE, POST_ROUTE, PRE_RESPONSE, POST_RESPONSE, CLEANUP is invoked
\* once in every request cycle that is served to completion (unless an
\* earlier layer of its stage ended the stage with a hard failure).
C23_EveryStageRuns ==
    \A k \in 1..p_reads : \A i \in 1..Len(p_layers) :
        (Completed(k) /\ ~StoppedBefore(i)) => Invocations(i, k) = 1

\* the layers of a stage whose function runs when the stage is applied:
\* all of them up to the first that fails hard, in registration order
ExpectedRun(stage) ==
    SelectSeq([i \in 1..Len(p_layers) |-> i],
              LAMBDA i : p_layers[i].when = stage /\ ~StoppedBefore(i))

\* the statements that read, parse, route or send
ServingSteps ==
    {"recv", "parse", "new_response", "pre_route", "route", "post_route",
     "send"}

C28_CleanupAfterParseFailure ==
    (p_pc \in {"close", "closed"} /\ p_failed = "parse") =>
        \A i \in 1..Len(ExpectedRun("CLEANUP")) :
            Invocations(ExpectedRun("CLEANUP")[i], p_reads) >= 1

\* the statement that follows p_hist[j], when one has run or is due
FollowedBy(j, step) ==
    IF j < Len(p_hist) THEN p_hist[j + 1].ev = step ELSE p_pc = step

\* C29: when the PRE_ROUTE or the POST_ROUTE stage returns false the cycle
\* goes on: the route and POST_ROUTE follow PRE_ROUTE, the send follows
\* POST_ROUTE, the socket is closed only after a failed read, parse or send
\* or after Connection: close, and the response that is sent carries what
\* the layers that ran before the failing one (and the failing one) did.
C29_StageFailureGoesOn ==
    /\ \A j \in 1..Len(p_hist) :
          /\ p_hist[j].ev = "pre_route" => FollowedBy(j, "route")
          /\ p_hist[j].ev = "route" => FollowedBy(j, "post_route")
          /\ p_hist[j].ev = "post_route" => FollowedBy(j, "send")
          /\ (p_hist[j].ev = "close") =>
                \/ p_hist[j - 1].ev = "recv" /\ ~p_hist[j - 1].ok
                \/ p_hist[j - 1].ev = "free_request" /\ p_failed = "parse"
                \/ p_hist[j - 1].ev = "free_response" /\ p_failed = "send"
                \/ p_hist[j - 1].ev = "pfree_tag" /\ ~p_active
    /\ p_sent.done =>
          p_sent.marks = ExpectedRun("PRE_ROUTE") \o <<HANDLER>>
                         \o ExpectedRun("POST_ROUTE")

\* a response went out after PRE_ROUTE returned false behind a layer that
\* had already changed the response
C29_Witness ==
    /\ p_sent.done /\ p_failed = "no"
    /\ \E j \in 1..Len(p_hist) :
          p_hist[j] = [ev |-> "pre_route", ok |-> FALSE, k |-> p_reads]
    /\ Len(ExpectedRun("PRE_ROUTE")) >= 2

(* ------------------------------------------------------------------ *)
(* The registry when its own allocations fail                         *)
(* ------------------------------------------------------------------ *)
\* C24: pmalloc and pcalloc either return NULL and leave the registry as
\* it was, or return an address that has an allocation record and is a
\* member of its tag's group, also when the malloc of the record, the
\* malloc of a new tag entry or the realloc of the member array fails.
C24_AllOrNothing ==
    (last.op \in {"pmalloc", "pcalloc"}) =>
        IF last.ret = NULL
        THEN g_alloc_count = last.precount
        ELSE /\ HasInfo(Reg, last.ret)
             /\ find_alloc_info(Reg, last.ret).tag = last.tag
             /\ MemberCount(Reg, last.tag, last.ret) = 1

(* ------------------------------------------------------------------ *)
(* Addresses the registry does not know                               *)
(* ------------------------------------------------------------------ *)
\* the call that has just returned (in the state after the step)
Returned(op) == last.op = "none" /\ last'.op = op

\* C25: pfree(a) and prealloc(a, n, t) with a non-NULL address that has no
\* record end in the fatal outcome, free nothing and leave every record
\* and group as they were; pfree(NULL) does nothing; prealloc(NULL, n, t)
\* does what pmalloc(n, t) does.
C25_UnknownAddressIsFatal ==
    [][/\ ((Returned("pfree") \/ Returned("prealloc"))
              /\ last'.ptr # NULL /\ ~HasInfo(Reg, last'.ptr)) =>
             (fatal' /\ Reg' = Reg)
       /\ (Returned("pfree") /\ last'.ptr = NULL) =>
             (~fatal' /\ Reg' = Reg)
       /\ (Returned("prealloc") /\ last'.ptr = NULL) =>
             /\ ~fatal'
             /\ \E f \in FaultChoices :
                   Reg' = pmalloc(Reg, last'.size, last'.tag, last'.ret, f).r
      ]_vars

\* a pfree of an address without a record has aborted the process while
\* other blocks are registered
C25_Witness ==
    /\ fatal /\ last.op = "pfree"
    /\ last.ptr # NULL /\ ~last.hadInfo
    /\ g_alloc_count > 0

(* ------------------------------------------------------------------ *)
(* Records and the underlying allocator                               *)
(* ------------------------------------------------------------------ *)
\* C26: at no point, also inside a prealloc that relocates the block, is
\* an address back with the underlying allocator while the registry holds
\* a record for it, and no address ever has two records.
C26_RecordGoneBeforeMemory ==
    \A a \in Addrs :
        /\ a \notin heap => RecordCount(Reg, a) = 0
        /\ RecordCount(Reg, a) <= 1

(* ------------------------------------------------------------------ *)
(* The tag of a newly accepted connection                             *)
(* ------------------------------------------------------------------ *)
\* a connection was accepted after an earlier one and has not read yet
NewlyAccepted == c_conns > 1 /\ c_pc = "recv" /\ c_hist = <<>>

\* C30: the tag given to a newly accepted connection is fresh: it is the
\* tag of no connection that is still open (a descriptor is handed out
\* again only after close), and when the tag is assigned no allocation
\* left by an earlier connection is registered under it.
C30_FreshTag == NewlyAccepted => GroupEmpty

(* ------------------------------------------------------------------ *)
(* What a release leaves behind                                       *)
(* ------------------------------------------------------------------ *)
\* C35: after pfree_tag(t) returns the registry holds no tag entry for t:
\* the group is dropped, not only emptied, so the number of tag entries
\* does not grow with the tags that were used and released.
C35_GroupDropped ==
    (last.op = "pfree_tag" /\ ~fatal) =>
        find_tag_entry(Reg, last.tag) = 0

\* C38: when prealloc(a, n, t2) of a registered block fails because
\* realloc fails, it returns NULL and the registry is as it was: the
\* record of a keeps address, size and tag and a stays in its group.
C38_FailedReallocChangesNothing ==
    [][(/\ Returned("prealloc")
        /\ last'.ptr # NULL /\ HasInfo(Reg, last'.ptr)
        /\ last'.ret = NULL) =>
           /\ ~fatal'
           /\ Reg' = Reg
           /\ find_alloc_info(Reg', last'.ptr) = find_alloc_info(Reg, last'.ptr)
           /\ MemberCount(Reg', last'.oldtag, last'.ptr) =
                 MemberCount(Reg, last'.oldtag, last'.ptr)
      ]_vars

\* a prealloc to another tag has failed in realloc while the block and
\* another one are registered
C38_Witness ==
    /\ last.op = "prealloc" /\ ~fatal
    /\ last.ptr # NULL /\ last.hadInfo /\ last.ret = NULL
    /\ last.oldtag # last.tag
    /\ g_alloc_count = 2

\* the records and the memberships of the addresses that satisfy Kept are
\* the same before and after the step
FrameKept(Kept(_)) ==
    /\ \A e \in Records(Reg) : Kept(e) => e \in Records(Reg')
    /\ \A e \in Records(Reg') : e \in Records(Reg)
    /\ \A e \in Records(Reg) : Kept(e) =>
          \A t \in Tags :
             MemberCount(Reg', t, e.ptr) = MemberCount(Reg, t, e.ptr)

\* C39: pfree(a) removes only the record of a and pfree_tag(t) removes
\* only records whose tag is t: the records, sizes and group memberships
\* of every address registered under another tag are unchanged.
C39_ReleaseFrame ==
    [][/\ (Returned("pfree") /\ ~fatal') =>
             FrameKept(LAMBDA e : e.ptr # last'.ptr)
       /\ (Returned("pfree_tag") /\ ~fatal') =>
             FrameKept(LAMBDA e : e.tag # last'.tag)
      ]_vars

\* a pfree_tag has released a block while a block of another tag stays
C39_Witness ==
    /\ last.op = "pfree_tag" /\ ~fatal
    /\ last.tagged # {}
    /\ \E e \in Records(Reg) : e.tag # last.tag

(* ------------------------------------------------------------------ *)
(* Properties of an array and its storage                             *)
(* ------------------------------------------------------------------ *)
\* thread t is between taking and releasing the lock
InCall(t) == s_pc[t] \in {"body", "index", "store", "unlock"}
\* the step is the one in which thread t's call op does its work
Works(t, op) ==
    /\ s_pc[t] = "body" /\ s_pc'[t] # "body"
    /\ s_call[t].op = op
\* the records under the array's tag that are not buffers of elements
Backing == {e \in Records(Reg) : e.tag = SeqTag /\ e.ptr \notin s_bufs}

C33_DestroyReleasesStorageOnly ==
    [][\A t \in Threads :
          Works(t, "destroy") =>
             /\ ~fatal'
             /\ s_arr'.size = 0 /\ s_arr'.capacity = 0 /\ s_data' = NULL
             /\ Records(Reg') = Records(Reg) \ Backing
             /\ g_alloc_count' =
                   g_alloc_count - (IF s_data = NULL THEN 0 ELSE 1)
             /\ heap' = heap \ {s_data}
             /\ \A b \in s_bufs :
                   /\ HasInfo(Reg', b)
                   /\ MemberCount(Reg', SeqTag, b) = 1
      ]_vars

\* a destroy has run on an array that held an element with a buffer
C33_Witness ==
    \E t, u \in Threads :
        /\ s_call[t].op = "destroy" /\ s_pc[t] = "unlock"
        /\ s_call[u].op = "push" /\ s_call[u].ret /\ s_pc[u] = "idle"
        /\ s_arr.size = 0 /\ s_data = NULL
        /\ HasInfo(Reg, s_call[u].v)

\* C34: every call holds the array's lock from before its first read of
\* the array to after its last write, and releases it on every return,
\* the failing ones too; so calls do not interleave: each push adds its
\* element after the ones there and adds one to size, two threads that
\* push at the same time both succeed, and the array holds what the calls
\* make one after the other.
C34_CallsUnderLock ==
    [][/\ \A t \in Threads : InCall(t)' <=> (s_mutex' = t)
       /\ \A t \in Threads :
             (s_pc[t] = "store" /\ s_pc'[t] # "store") =>
                /\ s_call'[t].ret
                /\ s_arr'.size = s_arr.size + 1
                /\ Contents(s_arr') = Append(Contents(s_arr), s_call[t].v)
       /\ \A t \in Threads :
             (s_pc'[t] = "unlock" /\ s_call'[t].op = "push") =>
                (s_call'[t].ret \/ s_call'[t].oom)
       /\ (s_mutex' = NoHolder) => Contents(s_arr') = s_ref'
      ]_vars

\* two threads have pushed at the same time, one waited for the lock, and
\* both elements are in the array
C34_Witness ==
    /\ \A t \in {1, 2} :
          /\ s_call[t].op = "push" /\ s_call[t].ret
          /\ s_pc[t] = "idle"
    /\ \E t \in {1, 2} : s_call[t].overlap
    /\ s_arr.size = 2
    /\ {s_call[1].v, s_call[2].v} = Range(Contents(s_arr))
    /\ s_call[1].v # s_call[2].v

(* ------------------------------------------------------------------ *)
(* Tearing down the layers                                            *)
(* ------------------------------------------------------------------ *)
\* how many times ptr was passed to pfree
TimesFreed(ptr) == Cardinality({k \in 1..Len(l_log) : l_log[k].ptr = ptr})

\* C36: layers_free and layers_clear on a context with n >= 1 layers
\* release the name of every layer exactly once, and layers_free the
\* storage of the array and the context too; they never pass to pfree an
\* address that has no record, do not abort, release nothing twice and
\* read no released storage.
C36_LayersTornDownOnce ==
    /\ l_pc \in {"loop", "done"} =>
          /\ ~fatal /\ ~double_free /\ ~l_stale
          /\ \A k \in 1..Len(l_log) : l_log[k].known
    /\ l_pc = "done" =>
          /\ \A k \in 1..Len(l_names) :
                TimesFreed(l_names[k]) = 1 /\ ~HasInfo(Reg, l_names[k])
          /\ l_op = "layers_free" =>
                \A e \in Records(Reg) : e.tag # ServerTag

(* ------------------------------------------------------------------ *)
(* Content-Length on the wire                                         *)
(* ------------------------------------------------------------------ *)
\* the bytes http_response_send emits after the empty line
EmittedBody ==
    LET head == response_bytes([b_resp EXCEPT !.body = <<>>, !.raw_body = <<>>])
    IN SubSeq(b_wire, Len(head) + 1, Len(b_wire))
HeadersNamed(key) ==
    {k \in 1..Len(b_resp.headers) : b_resp.headers[k].key = key}

\* C37: a response that has gone through the built-in POST_ROUTE layers
\* carries exactly one Content-Length header and its value is the number
\* of bytes of the body that is sent, the compressed one when encoding is
\* GZIP; encoding is GZIP only when there is a compressed body and a
\* Content-Encoding header; also when the compression fails.
C37_ContentLengthMatchesBody ==
    b_pc = "sent" =>
        /\ Cardinality(HeadersNamed(S_ContentLength)) = 1
        /\ \A k \in HeadersNamed(S_ContentLength) :
              b_resp.headers[k].value = Decimal(Len(EmittedBody))
        /\ b_resp.encoding = "COMPRESSION_GZIP" =>
              /\ b_resp.raw_body # <<>>
              /\ HeadersNamed(S_ContentEncoding) # {}

(* ------------------------------------------------------------------ *)
(* The accept loop and its workers                                    *)
(* ------------------------------------------------------------------ *)
\* worker i waits in recv, or is about to send
Blocked(i) == k_workers[i].pc \in {"recv", "send"}
\* the accept loop has a statement to run
AcceptorRuns ==
    /\ ~fatal /\ k_pc # "returned"
    /\ k_pc = "accept" => k_accepted < MaxWorkers

\* C31: the accept loop never waits for a worker: whatever the workers are
\* doing (blocked in recv or send, or anywhere else), the loop's next
\* statement can run, so a new connection is accepted and a worker is
\* started for it; and every connection for which pthread_create succeeded
\* is served by exactly one worker, which has that connection's descriptor
\* and InternalRequest to itself.
C31_AcceptorNeverWaits ==
    /\ AcceptorRuns => ENABLED Acceptor
    /\ \A i, j \in Workers :
          /\ k_workers[i].conn \in 1..k_accepted
          /\ k_workers[i].conn = k_workers[j].conn => i = j
          /\ (i # j /\ k_workers[i].pc \notin {"free_start", "unlink", "untag",
                                               "done", "aborted"}
                    /\ k_workers[j].pc \notin {"free_start", "unlink", "untag",
                                               "done", "aborted"})
                => k_workers[i].fd # k_workers[j].fd

\* a worker was started while another one was blocked, and both are
\* blocked now, one in recv and one before send
C31_Witness ==
    /\ Len(k_workers) = MaxWorkers
    /\ k_workers[1].pc = "send" /\ k_workers[2].pc = "recv"
    /\ k_workers[1].fd # k_workers[2].fd

\* worker i is between a successful recv and the end of that cycle
InCycle(i) ==
    k_workers[i].pc \in {"request_new", "parse", "send", "keepalive"}

\* C40: every worker that was started closes its client socket once and
\* releases its InternalRequest once on every way out of the loop: it
\* never closes or releases twice, it closes only outside a request cycle,
\* its pfree(request) finds the record of the InternalRequest (no abort),
\* and when it has returned both have happened exactly once.
C40_WorkerClosesAndReleasesOnce ==
    \A i \in Workers :
        /\ k_workers[i].closes <= 1 /\ k_workers[i].releases <= 1
        /\ InCycle(i) => k_workers[i].closes = 0
        /\ k_workers[i].pc # "aborted"
        /\ k_workers[i].pc = "done" =>
              k_workers[i].closes = 1 /\ k_workers[i].releases = 1

====
